---------------------------- MODULE Spec2Model ----------------------------
(***************************************************************************)
(* Market simulator of the arcade securities desk (app/securities.py) and  *)
(* the trading routes that call it (app/routes.py).                        *)
(*                                                                         *)
(* Units.  Prices are integers in cents (MIN_PRICE = 0.01 is 1).  Money    *)
(* (balance, notional, margin, cash_delta) is in tenths of a cent, so that *)
(* the futures margin 0.1 x forward x |qty| is the integer forward x |qty| *)
(* and a notional price x |qty| is price x |qty| x MARGIN_DEN.             *)
(* Multiplicative adjustments are in units of 1/10000 (ADJ_ONE is 1.0).    *)
(*                                                                         *)
(* Persistence.  `sec', `history', `balance', `eqHold', `optHold' and      *)
(* `futHold' are the committed rows of the database.  Every thread has its *)
(* own SQLAlchemy session (db.session is scoped per thread / application   *)
(* context): `sess[t]' holds the objects the thread has loaded and the     *)
(* writes it has flushed but not committed.  A commit writes the pending   *)
(* values over the committed rows; a rollback (or the removal of the       *)
(* session when the application context is torn down) discards them.       *)
(***************************************************************************)
EXTENDS Integers, Sequences, FiniteSets, TLC

\* ------------------------------------------------------------------------
\* Program constants

MIN_PRICE == 1

MARGIN_DEN == 10

ADJ_ONE == 10000

ADJ_MIN == 5000

ADJ_MAX == 15000

OPTION_IMPACT_PCT == 5

FUTURE_IMPACT_PCT == 10

\* Security.query.get(symbol) returning None: there is no Security row.
NoRow == -1

\* ------------------------------------------------------------------------
\* Bounds of the model

\* ticks (step() calls that enter the locked section) in one behaviour
MaxTicks == 2

\* successful trades in one behaviour
MaxTrades == 3

\* direct apply_order_impact calls in one behaviour
MaxImpacts == 2

\* step() calls by request threads in one behaviour of Spec
PriceTicks == 1

\* the largest |quantity| a request carries ("very large" order)
BigQty == 100

\* reload_config() calls after construction in one behaviour
MaxReloads == 1

\* days the clock advances in one behaviour
MaxClock == 1

\* writes of the games and trivia files in one behaviour
MaxEdits == 3

\* the time the casino's clock reaches, in units of ten minutes
MaxTime == 4

\* forced earnings publications in one behaviour
MaxForced == 1

\* application contexts a thread stacks itself
MaxDepth == 2

\* ------------------------------------------------------------------------
\* Configuration and the threads of the process

\* self.configs: the configured symbols, in the order configs.items() yields
SymOrder == <<"A", "B">>

Symbols == {SymOrder[i] : i \in 1..Len(SymOrder)}

\* a symbol a request may name that is neither configured nor stored
UnknownSymbol == "Z"

AllSymbols == Symbols \cup {UnknownSymbol}

\* SecurityConfig of a symbol: liquidity (>= 1e-6) and impact (>= 0.0) in
\* hundredths; B is configured without price impact
Config(s) == [liquidity |-> 1, impactPct |-> IF s = "B" THEN 0 ELSE 10]

\* request-serving threads (callers of the trading routes, step(), start(), stop())
Callers == {"c1", "c2"}

\* threading.Thread objects start() can create for _run
SchedThreads == {"s1", "s2"}

Threads == Callers \cup SchedThreads

Free == "free"

NoThread == "none"

Max(a, b) == IF a >= b THEN a ELSE b

Min(a, b) == IF a <= b THEN a ELSE b

Abs(a) == IF a < 0 THEN -a ELSE a


EmptyFn == [x \in {} |-> 0]

\* ------------------------------------------------------------------------
\* State

VARIABLES
  sec,        \* committed Security rows: symbol -> [price, upd]; price NoRow: no row.
              \* upd is updated_at: the number of the tick that wrote it, 0 otherwise
  history,    \* committed SecurityPriceHistory rows, in insertion order: symbol,
              \* price, and for the timestamp what wrote the row and in which tick
  balance,    \* committed User.balance of the trading user
  eqHold,     \* committed SecurityHolding rows of the user, by symbol
  optHold,    \* committed OptionHolding rows of the user, by listing id
  futHold,    \* committed FutureHolding rows of the user, by listing id
  ledger,     \* committed Transaction rows of the user, in order: the amount, and
              \* for the description what was traded, how many and at what price
  serial,     \* per symbol: the price the committed updates give when each is
              \* applied to the price committed just before it
  sess,       \* per thread: the session's loaded objects and pending writes
  pc,         \* per thread: where it is
  req,        \* per thread: the request it is serving and its result so far
  lock,       \* self._lock: the thread holding it, or Free
  thread,     \* self._thread: a scheduler thread, or NoThread
  stopFlag,   \* self._stop
  stepIdx,    \* per thread: position of step()'s loop in configs.items()
  tickNo,     \* per thread: `now' of the tick it is running (its number)
  ticksBegun, \* locked sections entered so far
  tickFailed, \* per scheduler thread: a tick of it has raised
  stopSeen,   \* per scheduler thread: ticks begun since stop() set the flag
              \* while it was running (capped at 2); -1 when stop() has not
  interval,   \* self.interval: the number of the configuration it was read from
  risk_free_rate, \* self.risk_free_rate: likewise
  configs,    \* self.configs: the number of the configuration the map holds
  tickConf,   \* per thread, for the tick it is running: the configs map its
              \* loop iterates and the self.interval values it has read
  optionListing, \* committed OptionListing rows, in insertion order
  futureListing, \* committed FutureListing rows, in insertion order
  clock,      \* datetime.utcnow(), in days
  files,      \* the games, trivia and submitted-trivia files: content and mtime
  gm,         \* the fields of the GamesManager
  edits,      \* file writes so far (the clock of the mtimes)
  casinoLock, \* CasinoManager._lock: the thread holding it, or Free
  last_publish, \* CasinoManager._last_publish, NoPublish for None
  published,  \* the earnings publications committed so far, in order
  utcnow,     \* datetime.utcnow() of the casino, in units of ten minutes
  appCtx      \* per thread: the depth of its stack of application contexts, and
              \* for the apply_order_impact call it is in: whether ctx is not
              \* None, the depth at the call, the pushes and the pops it made

dbVars == <<sec, history, balance, eqHold, optHold, futHold, ledger, serial>>

\* the configuration fields of the simulator
confVars == <<interval, risk_free_rate, configs>>

\* the listing tables and the time
listVars == <<optionListing, futureListing, clock>>

\* the GamesManager and its files
gameVars == <<files, gm, edits>>

\* the state of the application outside the market simulator
\* the CasinoManager's publication state and its clock
casinoVars == <<casinoLock, last_publish, published, utcnow>>

extVars == <<gameVars, casinoVars, appCtx>>

\* the state of the market simulator next to the database and the sessions
simVars == <<lock, thread, stopFlag, stepIdx, tickNo, ticksBegun, tickFailed, stopSeen,
             tickConf, confVars, listVars>>

schedVars == <<simVars, extVars>>

vars == <<sec, history, balance, eqHold, optHold, futHold, ledger, serial, sess, pc, req,
          lock, thread, stopFlag, stepIdx, tickNo, ticksBegun, tickFailed,
          stopSeen, interval, risk_free_rate, configs, tickConf, optionListing,
          futureListing, clock, files, gm, edits, casinoLock, last_publish, published,
          utcnow, appCtx>>

\* A session with nothing loaded and nothing pending (after commit, rollback
\* or remove every object is expired).
EmptySess ==
  [sec |-> EmptyFn, dirty |-> {}, hist |-> <<>>, bal |-> 0, balDirty |-> FALSE,
   eq |-> EmptyFn, opt |-> EmptyFn, fut |-> EmptyFn, txns |-> <<>>, ops |-> EmptyFn]

NoReq == [kind |-> "none", key |-> "", qty |-> 0, err |-> "", cash |-> 0, isym |-> "",
          sq |-> 0, price |-> 0]

\* no tick running: no map iterated, no interval read
NoConf == [cfg |-> -1, ivs |-> {}]

\* a thread without application context that is in no apply_order_impact call
NoCall == [depth |-> 0, own |-> FALSE, before |-> 0, pushes |-> 0, pops |-> 0]

NoHolding == [row |-> FALSE, qty |-> 0, avgN |-> 0, avgD |-> 1]

NoFuture == [row |-> FALSE, qty |-> 0, entry |-> 0]

\* Security.query.get(symbol) in thread t: the identity map's object when the
\* session has loaded it in this transaction, the committed row otherwise.
SessSec(t, s) == IF s \in DOMAIN sess[t].sec THEN sess[t].sec[s] ELSE sec[s]

\* db.session.commit(): every pending write of the session reaches the
\* committed rows (an UPDATE sets the value the session computed).
CommitDB(sn) ==
  /\ sec' = [s \in AllSymbols |-> IF s \in sn.dirty THEN sn.sec[s] ELSE sec[s]]
  /\ history' = history \o sn.hist
  /\ balance' = IF sn.balDirty THEN sn.bal ELSE balance
  /\ eqHold' = [s \in DOMAIN eqHold |-> IF s \in DOMAIN sn.eq THEN sn.eq[s] ELSE eqHold[s]]
  /\ optHold' = [l \in DOMAIN optHold |->
                   IF l \in DOMAIN sn.opt THEN sn.opt[l] ELSE optHold[l]]
  /\ futHold' = [l \in DOMAIN futHold |->
                   IF l \in DOMAIN sn.fut THEN sn.fut[l] ELSE futHold[l]]
  /\ ledger' = ledger \o sn.txns
  /\ serial' = [s \in Symbols |->
                  IF s \in DOMAIN sn.ops
                  THEN Max(MIN_PRICE, (Max(MIN_PRICE, serial[s]) * sn.ops[s][1])
                                        \div sn.ops[s][2])
                  ELSE serial[s]]

\* ------------------------------------------------------------------------
\* MarketSimulator.step

\* exp(exponent) of one security in one tick, as numerator and denominator.
\* shock = random.gauss(0, 1) is unbounded, so the factor is any positive
\* float, and 0.0 or below one cent when exp underflows or the price is small.
ShockFactors == {<<0, 1>>, <<2, 1>>}

\* NewTickPrice without the clamp to the floor
NewTickPriceNoFloor(price, f) == (price * f[1]) \div f[2]

\* new_price = max(MIN_PRICE, price * math.exp(exponent))
NewTickPrice(price, f) == Max(MIN_PRICE, (price * f[1]) \div f[2])

\* A caller invokes step() synchronously (tests, admin tools).
CallStep(t) ==
  /\ t \in Callers
  /\ pc[t] = "idle"
  /\ pc' = [pc EXCEPT ![t] = "tick"]
  /\ UNCHANGED <<dbVars, sess, req, schedVars>>

\* StepAcquire entering the section whether or not the lock is held
StepAcquireNoLock(t) ==
  /\ pc[t] = "tick"
  /\ ticksBegun < MaxTicks
  /\ lock' = t
  /\ ticksBegun' = ticksBegun + 1
  /\ tickNo' = [tickNo EXCEPT ![t] = ticksBegun + 1]
  /\ stepIdx' = [stepIdx EXCEPT ![t] = 1]
  /\ stopSeen' = IF t \in SchedThreads /\ stopSeen[t] >= 0
                 THEN [stopSeen EXCEPT ![t] = Min(2, stopSeen[t] + 1)]
                 ELSE stopSeen
  /\ tickConf' = [tickConf EXCEPT ![t] = [cfg |-> configs, ivs |-> {}]]
  /\ pc' = [pc EXCEPT ![t] = "step"]
  /\ UNCHANGED <<dbVars, sess, req, thread, stopFlag, tickFailed, confVars, listVars, extVars>>

\* `with self._lock:' entered; now = datetime.utcnow()
StepAcquire(t) ==
  /\ pc[t] = "tick"
  /\ lock = Free
  /\ ticksBegun < MaxTicks
  /\ lock' = t
  /\ ticksBegun' = ticksBegun + 1
  /\ tickNo' = [tickNo EXCEPT ![t] = ticksBegun + 1]
  /\ stepIdx' = [stepIdx EXCEPT ![t] = 1]
  /\ stopSeen' = IF t \in SchedThreads /\ stopSeen[t] >= 0
                 THEN [stopSeen EXCEPT ![t] = Min(2, stopSeen[t] + 1)]
                 ELSE stopSeen
  /\ tickConf' = [tickConf EXCEPT ![t] = [cfg |-> configs, ivs |-> {}]]
  /\ pc' = [pc EXCEPT ![t] = "step"]
  /\ UNCHANGED <<dbVars, sess, req, thread, stopFlag, tickFailed, confVars, listVars, extVars>>

\* StepSecurity updating the price without adding a history row
StepSecurityNoHistory(t, f) ==
  /\ pc[t] = "step"
  /\ lock = t
  /\ stepIdx[t] <= Len(SymOrder)
  /\ LET s == SymOrder[stepIdx[t]]
         row == SessSec(t, s)
         price == Max(MIN_PRICE, row.price)
         new_price == NewTickPrice(price, f)
     IN IF row.price = NoRow
        THEN sess' = sess /\ tickConf' = tickConf
        ELSE /\ sess' = [sess EXCEPT
                  ![t].sec = (s :> [price |-> new_price, upd |-> tickNo[t]]) @@ sess[t].sec,
                  ![t].dirty = @ \cup {s},
                  ![t].ops = (s :> f) @@ sess[t].ops]
             /\ tickConf' = [tickConf EXCEPT ![t].ivs = @ \cup {interval}]
  /\ stepIdx' = [stepIdx EXCEPT ![t] = @ + 1]
  /\ UNCHANGED <<dbVars, pc, req, lock, thread, stopFlag, tickNo, ticksBegun,
                 tickFailed, stopSeen, confVars, listVars, extVars>>

\* StepSecurity committing each security's update as soon as it is made
StepSecurityCommitEach(t, f) ==
  /\ pc[t] = "step"
  /\ lock = t
  /\ stepIdx[t] <= Len(SymOrder)
  /\ LET s == SymOrder[stepIdx[t]]
         row == SessSec(t, s)
         price == Max(MIN_PRICE, row.price)
         new_price == NewTickPrice(price, f)
         sn == [EmptySess EXCEPT
                  !.sec = (s :> [price |-> new_price, upd |-> tickNo[t]]),
                  !.dirty = {s},
                  !.hist = <<[sym |-> s, price |-> new_price, src |-> "tick",
                              tick |-> tickNo[t]]>>,
                  !.ops = (s :> f)]
     IN /\ IF row.price = NoRow THEN UNCHANGED dbVars ELSE CommitDB(sn)
        /\ tickConf' = IF row.price = NoRow THEN tickConf
                       ELSE [tickConf EXCEPT ![t].ivs = @ \cup {interval}]
  /\ stepIdx' = [stepIdx EXCEPT ![t] = @ + 1]
  /\ UNCHANGED <<sess, pc, req, lock, thread, stopFlag, tickNo, ticksBegun, tickFailed,
                 stopSeen, confVars, listVars, extVars>>

\* StepSecurity leaving the loop at a symbol without Security row
StepSecurityBreak(t, f) ==
  /\ pc[t] = "step"
  /\ lock = t
  /\ stepIdx[t] <= Len(SymOrder)
  /\ LET s == SymOrder[stepIdx[t]]
         row == SessSec(t, s)
         price == Max(MIN_PRICE, row.price)
         new_price == NewTickPrice(price, f)
     IN IF row.price = NoRow
        THEN /\ sess' = sess /\ tickConf' = tickConf
             /\ stepIdx' = [stepIdx EXCEPT ![t] = Len(SymOrder) + 1]
        ELSE /\ sess' = [sess EXCEPT
                  ![t].sec = (s :> [price |-> new_price, upd |-> tickNo[t]]) @@ sess[t].sec,
                  ![t].dirty = @ \cup {s},
                  ![t].hist = Append(@, [sym |-> s, price |-> new_price, src |-> "tick",
                                         tick |-> tickNo[t]]),
                  ![t].ops = (s :> f) @@ sess[t].ops]
             /\ tickConf' = [tickConf EXCEPT ![t].ivs = @ \cup {interval}]
             /\ stepIdx' = [stepIdx EXCEPT ![t] = @ + 1]
  /\ UNCHANGED <<dbVars, pc, req, lock, thread, stopFlag, tickNo, ticksBegun,
                 tickFailed, stopSeen, confVars, listVars, extVars>>

\* One iteration of `for symbol, config in self.configs.items()'.
StepSecurity(t, f) ==
  /\ pc[t] = "step"
  /\ lock = t
  /\ stepIdx[t] <= Len(SymOrder)
  /\ LET s == SymOrder[stepIdx[t]]
         row == SessSec(t, s)
         price == Max(MIN_PRICE, row.price)
         new_price == NewTickPrice(price, f)
     IN IF row.price = NoRow
        THEN sess' = sess /\ tickConf' = tickConf
        ELSE /\ sess' = [sess EXCEPT
                  ![t].sec = (s :> [price |-> new_price, upd |-> tickNo[t]]) @@ sess[t].sec,
                  ![t].dirty = @ \cup {s},
                  ![t].hist = Append(@, [sym |-> s, price |-> new_price, src |-> "tick",
                                         tick |-> tickNo[t]]),
                  ![t].ops = (s :> f) @@ sess[t].ops]
             /\ tickConf' = [tickConf EXCEPT ![t].ivs = @ \cup {interval}]
  /\ stepIdx' = [stepIdx EXCEPT ![t] = @ + 1]
  /\ UNCHANGED <<dbVars, pc, req, lock, thread, stopFlag, tickNo, ticksBegun,
                 tickFailed, stopSeen, confVars, listVars, extVars>>

\* db.session.commit() after the loop, then the lock is released.
StepCommit(t) ==
  /\ pc[t] = "step"
  /\ lock = t
  /\ stepIdx[t] > Len(SymOrder)
  /\ CommitDB(sess[t])
  /\ sess' = [sess EXCEPT ![t] = EmptySess]
  /\ lock' = Free
  /\ stepIdx' = [stepIdx EXCEPT ![t] = 0]
  /\ tickNo' = [tickNo EXCEPT ![t] = 0]
  /\ pc' = [pc EXCEPT ![t] = IF t \in SchedThreads THEN "sleep" ELSE "idle"]
  /\ tickConf' = [tickConf EXCEPT ![t] = NoConf]
  /\ UNCHANGED <<req, thread, stopFlag, ticksBegun, tickFailed, stopSeen, confVars,
                 listVars, extVars>>

\* StepRaise leaving step() without releasing the lock
StepRaiseHoldingLock(t) ==
  /\ pc[t] = "step"
  /\ lock = t
  /\ lock' = lock
  /\ sess' = [sess EXCEPT ![t] = EmptySess]
  /\ tickFailed' = IF t \in SchedThreads THEN [tickFailed EXCEPT ![t] = TRUE]
                   ELSE tickFailed
  /\ stepIdx' = [stepIdx EXCEPT ![t] = 0]
  /\ tickNo' = [tickNo EXCEPT ![t] = 0]
  /\ pc' = [pc EXCEPT ![t] = IF t \in SchedThreads THEN "dead" ELSE "idle"]
  /\ tickConf' = [tickConf EXCEPT ![t] = NoConf]
  /\ UNCHANGED <<dbVars, req, thread, stopFlag, ticksBegun, stopSeen, confVars, listVars, extVars>>

\* A statement of the locked section raises (the flush or the commit fails with
\* OperationalError, math.exp overflows).  The with-statement releases the lock
\* and the exception leaves step(): nothing in step() or _run catches it, so in
\* the scheduler thread it ends _run (the application context is popped and the
\* session removed); in a caller it ends the request the same way.
StepRaise(t) ==
  /\ pc[t] = "step"
  /\ lock = t
  /\ lock' = Free
  /\ sess' = [sess EXCEPT ![t] = EmptySess]
  /\ tickFailed' = IF t \in SchedThreads THEN [tickFailed EXCEPT ![t] = TRUE]
                   ELSE tickFailed
  /\ stepIdx' = [stepIdx EXCEPT ![t] = 0]
  /\ tickNo' = [tickNo EXCEPT ![t] = 0]
  /\ pc' = [pc EXCEPT ![t] = IF t \in SchedThreads THEN "dead" ELSE "idle"]
  /\ tickConf' = [tickConf EXCEPT ![t] = NoConf]
  /\ UNCHANGED <<dbVars, req, thread, stopFlag, ticksBegun, stopSeen, confVars, listVars, extVars>>

\* ------------------------------------------------------------------------
\* MarketSimulator.start, stop and _run

\* Thread.is_alive(): started and not finished
IsAlive(k) == k # NoThread /\ pc[k] \in {"check", "tick", "step", "sleep"}

\* `if self._thread and self._thread.is_alive(): return'
StartCheck(c) ==
  /\ c \in Callers
  /\ pc[c] = "idle"
  /\ pc' = [pc EXCEPT ![c] = IF IsAlive(thread) THEN "start_done" ELSE "start_clear"]
  /\ UNCHANGED <<dbVars, sess, req, schedVars>>

\* self._stop.clear()
StartClear(c) ==
  /\ pc[c] = "start_clear"
  /\ stopFlag' = FALSE
  /\ pc' = [pc EXCEPT ![c] = "start_new"]
  /\ UNCHANGED <<dbVars, sess, req, lock, thread, stepIdx, tickNo, ticksBegun,
                 tickFailed, stopSeen, tickConf, confVars, listVars, extVars>>

\* self._thread = threading.Thread(target=self._run, ...)
StartNew(c) ==
  /\ pc[c] = "start_new"
  /\ \E k \in SchedThreads : pc[k] = "unborn"
  /\ LET k == CHOOSE k \in SchedThreads : pc[k] = "unborn"
     IN /\ thread' = k
        /\ pc' = [pc EXCEPT ![c] = "start_run", ![k] = "new"]
  /\ UNCHANGED <<dbVars, sess, req, lock, stopFlag, stepIdx, tickNo, ticksBegun,
                 tickFailed, stopSeen, tickConf, confVars, listVars, extVars>>

\* self._thread.start(): starts whatever self._thread is now; a thread that
\* was started already raises RuntimeError in the caller.
StartRun(c) ==
  /\ pc[c] = "start_run"
  /\ pc' = IF pc[thread] = "new"
           THEN [pc EXCEPT ![c] = "start_done", ![thread] = "check"]
           ELSE [pc EXCEPT ![c] = "start_done"]
  /\ UNCHANGED <<dbVars, sess, req, schedVars>>

\* start() returns to its caller
StartReturn(c) ==
  /\ pc[c] = "start_done"
  /\ pc' = [pc EXCEPT ![c] = "idle"]
  /\ UNCHANGED <<dbVars, sess, req, schedVars>>

\* self._stop.set(), then the is_alive test that decides whether to join
StopSet(c) ==
  /\ c \in Callers
  /\ pc[c] = "idle"
  /\ stopFlag' = TRUE
  /\ stopSeen' = [k \in SchedThreads |-> IF IsAlive(k) THEN 0 ELSE stopSeen[k]]
  /\ pc' = [pc EXCEPT ![c] = IF IsAlive(thread) THEN "join" ELSE "idle"]
  /\ UNCHANGED <<dbVars, sess, req, lock, thread, stepIdx, tickNo, ticksBegun,
                 tickFailed, tickConf, confVars, listVars, extVars>>

\* self._thread.join(timeout=1) returns: the thread ended, or the second passed
StopJoin(c) ==
  /\ pc[c] = "join"
  /\ pc' = [pc EXCEPT ![c] = "idle"]
  /\ UNCHANGED <<dbVars, sess, req, schedVars>>

\* `while not self._stop.is_set():' in the scheduler thread
RunCheck(k) ==
  /\ k \in SchedThreads
  /\ pc[k] = "check"
  /\ pc' = [pc EXCEPT ![k] = IF stopFlag THEN "dead" ELSE "tick"]
  /\ UNCHANGED <<dbVars, sess, req, schedVars>>

\* time.sleep(delay) returns
RunSleep(k) ==
  /\ k \in SchedThreads
  /\ pc[k] = "sleep"
  /\ pc' = [pc EXCEPT ![k] = "check"]
  /\ UNCHANGED <<dbVars, sess, req, schedVars>>

\* ------------------------------------------------------------------------
\* MarketSimulator.reload_config

\* raw = _load_toml(self.config_path); self.interval = ...: the file read is
\* configuration number interval + 1.  No lock is taken.
ReloadInterval(c) ==
  /\ c \in Callers
  /\ pc[c] = "idle"
  /\ interval < MaxReloads
  /\ interval' = interval + 1
  /\ req' = [req EXCEPT ![c] = [NoReq EXCEPT !.kind = "reload", !.qty = interval + 1]]
  /\ pc' = [pc EXCEPT ![c] = "reload_rate"]
  /\ UNCHANGED <<dbVars, sess, lock, thread, stopFlag, stepIdx, tickNo, ticksBegun,
                 tickFailed, stopSeen, tickConf, risk_free_rate, configs, listVars, extVars>>

\* self.risk_free_rate = ...
ReloadRate(c) ==
  /\ pc[c] = "reload_rate"
  /\ risk_free_rate' = req[c].qty
  /\ pc' = [pc EXCEPT ![c] = "reload_configs"]
  /\ UNCHANGED <<dbVars, sess, req, lock, thread, stopFlag, stepIdx, tickNo, ticksBegun,
                 tickFailed, stopSeen, tickConf, interval, configs, listVars, extVars>>

\* the new map is built aside, then self.configs = configs
ReloadConfigs(c) ==
  /\ pc[c] = "reload_configs"
  /\ configs' = req[c].qty
  /\ req' = [req EXCEPT ![c] = NoReq]
  /\ pc' = [pc EXCEPT ![c] = "idle"]
  /\ UNCHANGED <<dbVars, sess, lock, thread, stopFlag, stepIdx, tickNo, ticksBegun,
                 tickFailed, stopSeen, tickConf, interval, risk_free_rate, listVars, extVars>>

\* ------------------------------------------------------------------------
\* Listings and pricing

\* OptionListing rows: live is time_to_expiry > 0
OptionListings ==
  [l \in {"o1", "o2", "o3"} |->
     IF l = "o1" THEN [sym |-> "A", type |-> "call", strike |-> 150, live |-> FALSE]
     ELSE IF l = "o3" THEN [sym |-> "A", type |-> "put", strike |-> 250, live |-> FALSE]
                 ELSE [sym |-> "B", type |-> "put", strike |-> 5000, live |-> TRUE]]

\* FutureListing rows: live is time_to_delivery > 0
FutureListings ==
  [l \in {"f1", "f2"} |->
     IF l = "f1" THEN [sym |-> "A", live |-> FALSE]
                 ELSE [sym |-> "B", live |-> TRUE]]

\* a listing id no row has
UnknownOption == "o9"

UnknownFuture == "f9"

\* max(0, S - K) for a call, max(0, K - S) for a put
Intrinsic(spot, strike, type) ==
  IF type = "call" THEN Max(0, spot - strike) ELSE Max(0, strike - spot)

\* The time value the closed form adds for the live listing, in cents.  The
\* model does not track T, rate and sigma: one sample value stands for
\* _black_scholes(spot, strike, T, rate, sigma, type) - intrinsic.
TimeValue == 25

BlackScholes(spot, strike, type) == Intrinsic(spot, strike, type) + TimeValue

\* PriceOption using the closed form whatever the time to expiry
PriceOptionClosedForm(row, listing) ==
  IF row.price = NoRow THEN 0
  ELSE BlackScholes(Max(MIN_PRICE, row.price), listing.strike, listing.type)

\* MarketSimulator.price_option, given the underlying's Security row
PriceOption(row, listing) ==
  IF row.price = NoRow THEN 0
  ELSE LET spot == Max(MIN_PRICE, row.price)
       IN IF ~listing.live
          THEN Intrinsic(spot, listing.strike, listing.type)
          ELSE BlackScholes(spot, listing.strike, listing.type)

\* exp(rate * time_to_delivery) of the live future listing, as numerator and
\* denominator: one sample value above 1
Carry == <<11, 10>>

\* PriceFuture carrying the spot whatever the time to delivery
PriceFutureCarried(row, listing) ==
  IF row.price = NoRow THEN 0
  ELSE (Max(MIN_PRICE, row.price) * Carry[1]) \div Carry[2]

\* MarketSimulator.price_future, given the underlying's Security row
PriceFuture(row, listing) ==
  IF row.price = NoRow THEN 0
  ELSE LET spot == Max(MIN_PRICE, row.price)
       IN IF ~listing.live THEN spot ELSE (spot * Carry[1]) \div Carry[2]

\* ------------------------------------------------------------------------
\* MarketSimulator.ensure_initialized and the listing manager

\* SecurityConfig.initial_price, in cents
InitialPrice(s) == IF s = "A" THEN 200 ELSE 5000

\* SecurityConfig.options_tenors, in days
OptionsTenors(s) == IF s = "A" THEN <<1, 2>> ELSE <<1>>

\* SecurityConfig.options_strike_multipliers, in hundredths
StrikeMultipliers(s) == IF s = "A" THEN <<90, 110>> ELSE <<100>>

\* SecurityConfig.futures_tenors, in days
FuturesTenors(s) == IF s = "A" THEN <<1, 2>> ELSE <<1>>

\* round(base_price * multiplier, 2), in cents
Strike(base_price, multiplier) == (base_price * multiplier + 50) \div 100

\* The (security, option_type, strike, expiration) of the rows
\* _ensure_option_listings looks for, in the order of its three loops.
OptionKeys(s, base_price, now) ==
  LET T == OptionsTenors(s)
      M == StrikeMultipliers(s)
  IN [i \in 1..(Len(T) * Len(M) * 2) |->
        [sym |-> s,
         type |-> IF (i - 1) % 2 = 0 THEN "call" ELSE "put",
         strike |-> Strike(base_price, M[(((i - 1) \div 2) % Len(M)) + 1]),
         exp |-> now + T[((i - 1) \div (2 * Len(M))) + 1]]]

\* The (security, delivery_date) of the rows _ensure_future_listings looks for
FutureKeys(s, now) ==
  [i \in 1..Len(FuturesTenors(s)) |-> [sym |-> s, delivery |-> now + FuturesTenors(s)[i]]]

\* AddMissing adding every row, whether or not the table has it
AddMissingAlways(rows, keys) == rows \o keys

RECURSIVE AddMissing(_, _)
\* `existing = ....query.filter_by(...).first(); if not existing: db.session.add(...)'
\* for each key in turn; the query flushes first, so it sees the rows added
\* for earlier keys.
AddMissing(rows, keys) ==
  IF keys = <<>> THEN rows
  ELSE AddMissing(IF \E i \in DOMAIN rows : rows[i] = Head(keys)
                  THEN rows ELSE Append(rows, Head(keys)),
                  Tail(keys))

\* _ensure_option_listings(security, config, now): the table afterwards
EnsureOptionListings(rows, s, row, now) ==
  AddMissing(rows, OptionKeys(s, Max(MIN_PRICE, row.price), now))

\* _ensure_future_listings(security, config, now): the table afterwards
EnsureFutureListings(rows, s, now) == AddMissing(rows, FutureKeys(s, now))

RECURSIVE EnsureListings(_, _, _, _)
\* The two listing calls of ensure_initialized for the i-th and the later
\* configured symbols: the option and the future table afterwards.
EnsureListings(i, secs, now, tabs) ==
  IF i > Len(SymOrder) THEN tabs
  ELSE EnsureListings(i + 1, secs, now,
         <<EnsureOptionListings(tabs[1], SymOrder[i], secs[SymOrder[i]], now),
           EnsureFutureListings(tabs[2], SymOrder[i], now)>>)

\* EnsureSecurity setting the price of every row to config.initial_price
EnsureSecurityReset(row, s) == [price |-> InitialPrice(s), upd |-> 0]

\* The Security row of configured symbol s after the first part of the loop
\* body: created at config.initial_price when missing, reset to it when its
\* last_price is not positive, otherwise its price is left alone.
EnsureSecurity(row, s) ==
  IF row.price = NoRow THEN [price |-> InitialPrice(s), upd |-> 0]
  ELSE IF row.price <= 0 THEN [row EXCEPT !.price = InitialPrice(s)]
  ELSE row

\* ensure_initialized(): one session, committed at the end.
EnsureInitialized(c) ==
  /\ c \in Callers
  /\ pc[c] = "idle"
  /\ LET secs == [s \in AllSymbols |->
                    IF s \in Symbols THEN EnsureSecurity(sec[s], s) ELSE sec[s]]
         seeded == SelectSeq(SymOrder, LAMBDA s : sec[s].price = NoRow \/ sec[s].price <= 0)
         tabs == EnsureListings(1, secs, clock, <<optionListing, futureListing>>)
     IN /\ sec' = secs
        /\ history' = history \o [i \in 1..Len(seeded) |->
                                    [sym |-> seeded[i], price |-> InitialPrice(seeded[i]),
                                     src |-> "seed", tick |-> 0]]
        /\ serial' = [s \in Symbols |-> IF s \in {seeded[i] : i \in 1..Len(seeded)}
                                         THEN InitialPrice(s) ELSE serial[s]]
        /\ optionListing' = tabs[1]
        /\ futureListing' = tabs[2]
  /\ UNCHANGED <<balance, eqHold, optHold, futHold, ledger, sess, pc, req, lock, thread,
                 stopFlag, stepIdx, tickNo, ticksBegun, tickFailed, stopSeen, tickConf,
                 confVars, clock, extVars>>

\* a day passes
AdvanceClock ==
  /\ clock < MaxClock
  /\ clock' = clock + 1
  /\ UNCHANGED <<dbVars, sess, pc, req, lock, thread, stopFlag, stepIdx, tickNo,
                 ticksBegun, tickFailed, stopSeen, tickConf, confVars, optionListing,
                 futureListing, extVars>>

\* ------------------------------------------------------------------------
\* Trading helpers (pure parts)

RECURSIVE Gcd(_, _)
Gcd(a, b) == IF b = 0 THEN a ELSE Gcd(b, a % b)

\* total / qty as a fraction in lowest terms (the float division of the code,
\* taken exactly)
Ratio(n, d) ==
  IF n = 0 THEN <<0, 1>> ELSE LET g == Gcd(n, d) IN <<n \div g, d \div g>>

\* The result of a trade helper: err is "" on success, else the exception
\* ("TypeError", or the message of the ValueError); hold is the holding as the
\* helper leaves it; cash is cash_delta; isym and sq are the arguments of
\* apply_order_impact (sq in hundredths of a share).
TradeOutcome(err, hold, cash, isym, sq) ==
  [err |-> err, hold |-> hold, cash |-> cash, isym |-> isym, sq |-> sq]

\* ExecuteEquityTrade selling without the check of the held quantity
ExecuteEquityTradeNoSellCheck(bal, s, row, hold, q) ==
  LET price == Max(MIN_PRICE, row.price)
      notional == price * Abs(q) * MARGIN_DEN
      liquidity_scale == Max(Config(s).liquidity, 1)
      new_qty == hold.qty + q
      avg == Ratio(hold.qty * hold.avgN + price * q * hold.avgD, hold.avgD * new_qty)
  IN IF q = 0 THEN TradeOutcome("Quantity must be non-zero.", hold, 0, s, 0)
     ELSE IF row.price = NoRow THEN TradeOutcome("Security not found.", hold, 0, s, 0)
     ELSE IF q > 0 THEN
       IF bal < notional THEN TradeOutcome("Insufficient balance to buy.", hold, 0, s, 0)
       ELSE IF ~hold.row THEN TradeOutcome("TypeError", hold, 0, s, 0)
       ELSE TradeOutcome("", [row |-> TRUE, qty |-> new_qty,
                               avgN |-> IF new_qty # 0 THEN avg[1] ELSE 0,
                               avgD |-> IF new_qty # 0 THEN avg[2] ELSE 1],
                         -notional, s, (q * 100) \div liquidity_scale)
     ELSE TradeOutcome("", IF new_qty <= 0
                           THEN [row |-> TRUE, qty |-> 0, avgN |-> 0, avgD |-> 1]
                           ELSE [hold EXCEPT !.qty = new_qty],
                       notional, s, (q * 100) \div liquidity_scale)

\* execute_equity_trade(user, symbol, quantity) up to the impact call: bal is
\* user.balance, row the Security row of symbol, hold the user's holding row.
\* SecurityHolding(user_id=..., security_symbol=...) leaves quantity and
\* average_price None (a Column default is applied at INSERT), so the first
\* buy of a symbol raises TypeError at `holding.quantity + quantity'.
ExecuteEquityTrade(bal, s, row, hold, q) ==
  LET price == Max(MIN_PRICE, row.price)
      notional == price * Abs(q) * MARGIN_DEN
      liquidity_scale == Max(Config(s).liquidity, 1)
      new_qty == hold.qty + q
      avg == Ratio(hold.qty * hold.avgN + price * q * hold.avgD, hold.avgD * new_qty)
  IN IF q = 0 THEN TradeOutcome("Quantity must be non-zero.", hold, 0, s, 0)
     ELSE IF row.price = NoRow THEN TradeOutcome("Security not found.", hold, 0, s, 0)
     ELSE IF q > 0 THEN
       IF bal < notional THEN TradeOutcome("Insufficient balance to buy.", hold, 0, s, 0)
       ELSE IF ~hold.row THEN TradeOutcome("TypeError", hold, 0, s, 0)
       ELSE TradeOutcome("", [row |-> TRUE, qty |-> new_qty,
                               avgN |-> IF new_qty # 0 THEN avg[1] ELSE 0,
                               avgD |-> IF new_qty # 0 THEN avg[2] ELSE 1],
                         -notional, s, (q * 100) \div liquidity_scale)
     ELSE
       IF ~hold.row \/ hold.qty < Abs(q)
       THEN TradeOutcome("Not enough shares to sell.", hold, 0, s, 0)
       ELSE TradeOutcome("", IF new_qty <= 0
                             THEN [row |-> TRUE, qty |-> 0, avgN |-> 0, avgD |-> 1]
                             ELSE [hold EXCEPT !.qty = new_qty],
                         notional, s, (q * 100) \div liquidity_scale)

\* ExecuteOptionTrade with the pressure of a put signed like that of a call
ExecuteOptionTradeNoFlip(bal, known, listing, row, hold, q) ==
  LET premium == PriceOption(row, listing)
      notional == premium * Abs(q) * MARGIN_DEN
      new_qty == hold.qty + q
      avg == Ratio(hold.qty * hold.avgN + premium * q * hold.avgD, hold.avgD * new_qty)
      option_delta_sign == 1
      sq == option_delta_sign * q * OPTION_IMPACT_PCT
  IN IF q = 0 THEN TradeOutcome("Quantity must be non-zero.", hold, 0, "", 0)
     ELSE IF ~known THEN TradeOutcome("Option listing not found.", hold, 0, "", 0)
     ELSE IF q > 0 THEN
       IF bal < notional
       THEN TradeOutcome("Insufficient balance to buy option.", hold, 0, listing.sym, 0)
       ELSE IF ~hold.row THEN TradeOutcome("TypeError", hold, 0, listing.sym, 0)
       ELSE TradeOutcome("", [row |-> TRUE, qty |-> new_qty,
                               avgN |-> IF new_qty # 0 THEN avg[1] ELSE 0,
                               avgD |-> IF new_qty # 0 THEN avg[2] ELSE 1],
                         -notional, listing.sym, sq)
     ELSE
       IF ~hold.row \/ hold.qty < Abs(q)
       THEN TradeOutcome("Not enough contracts to sell.", hold, 0, listing.sym, 0)
       ELSE TradeOutcome("", IF new_qty <= 0
                             THEN [row |-> TRUE, qty |-> 0, avgN |-> 0, avgD |-> 1]
                             ELSE [hold EXCEPT !.qty = new_qty],
                         notional, listing.sym, sq)

\* execute_option_trade(user, listing_id, quantity) up to the impact call:
\* known is whether the listing exists, listing its row, row the underlying's
\* Security row, hold the user's OptionHolding row.
ExecuteOptionTrade(bal, known, listing, row, hold, q) ==
  LET premium == PriceOption(row, listing)
      notional == premium * Abs(q) * MARGIN_DEN
      new_qty == hold.qty + q
      avg == Ratio(hold.qty * hold.avgN + premium * q * hold.avgD, hold.avgD * new_qty)
      option_delta_sign == IF listing.type = "call" THEN 1 ELSE -1
      sq == option_delta_sign * q * OPTION_IMPACT_PCT
  IN IF q = 0 THEN TradeOutcome("Quantity must be non-zero.", hold, 0, "", 0)
     ELSE IF ~known THEN TradeOutcome("Option listing not found.", hold, 0, "", 0)
     ELSE IF q > 0 THEN
       IF bal < notional
       THEN TradeOutcome("Insufficient balance to buy option.", hold, 0, listing.sym, 0)
       ELSE IF ~hold.row THEN TradeOutcome("TypeError", hold, 0, listing.sym, 0)
       ELSE TradeOutcome("", [row |-> TRUE, qty |-> new_qty,
                               avgN |-> IF new_qty # 0 THEN avg[1] ELSE 0,
                               avgD |-> IF new_qty # 0 THEN avg[2] ELSE 1],
                         -notional, listing.sym, sq)
     ELSE
       IF ~hold.row \/ hold.qty < Abs(q)
       THEN TradeOutcome("Not enough contracts to sell.", hold, 0, listing.sym, 0)
       ELSE TradeOutcome("", IF new_qty <= 0
                             THEN [row |-> TRUE, qty |-> 0, avgN |-> 0, avgD |-> 1]
                             ELSE [hold EXCEPT !.qty = new_qty],
                         notional, listing.sym, sq)

\* ExecuteFutureTrade charging the whole margin of the new position
ExecuteFutureTradeFullMargin(bal, known, listing, row, hold, q) ==
  LET forward_price == PriceFuture(row, listing)
      previous_qty == IF hold.row THEN hold.qty ELSE 0
      new_qty == previous_qty + q
      new_margin == forward_price * Abs(new_qty)
  IN IF q = 0 THEN TradeOutcome("Quantity must be non-zero.", hold, 0, "", 0)
     ELSE IF ~known THEN TradeOutcome("Future listing not found.", hold, 0, "", 0)
     ELSE IF new_margin > 0 /\ bal < new_margin
     THEN TradeOutcome("Insufficient balance for margin.", hold, 0, listing.sym, 0)
     ELSE TradeOutcome("", [row |-> TRUE, qty |-> new_qty,
                             entry |-> IF new_qty # 0 THEN forward_price ELSE 0],
                       -new_margin, listing.sym, q * FUTURE_IMPACT_PCT)

\* ExecuteFutureTrade charging the margin of every order's own size
ExecuteFutureTradePerOrder(bal, known, listing, row, hold, q) ==
  LET forward_price == PriceFuture(row, listing)
      previous_qty == IF hold.row THEN hold.qty ELSE 0
      new_qty == previous_qty + q
      margin_delta == forward_price * Abs(q)
  IN IF q = 0 THEN TradeOutcome("Quantity must be non-zero.", hold, 0, "", 0)
     ELSE IF ~known THEN TradeOutcome("Future listing not found.", hold, 0, "", 0)
     ELSE IF margin_delta > 0 /\ bal < margin_delta
     THEN TradeOutcome("Insufficient balance for margin.", hold, 0, listing.sym, 0)
     ELSE TradeOutcome("", [row |-> TRUE, qty |-> new_qty,
                             entry |-> IF new_qty # 0 THEN forward_price ELSE 0],
                       -margin_delta, listing.sym, q * FUTURE_IMPACT_PCT)

\* execute_future_trade(user, listing_id, quantity) up to the impact call
ExecuteFutureTrade(bal, known, listing, row, hold, q) ==
  LET forward_price == PriceFuture(row, listing)
      previous_qty == IF hold.row THEN hold.qty ELSE 0
      new_qty == previous_qty + q
      prev_margin == forward_price * Abs(previous_qty)
      new_margin == forward_price * Abs(new_qty)
      margin_delta == new_margin - prev_margin
  IN IF q = 0 THEN TradeOutcome("Quantity must be non-zero.", hold, 0, "", 0)
     ELSE IF ~known THEN TradeOutcome("Future listing not found.", hold, 0, "", 0)
     ELSE IF margin_delta > 0 /\ bal < margin_delta
     THEN TradeOutcome("Insufficient balance for margin.", hold, 0, listing.sym, 0)
     ELSE TradeOutcome("", [row |-> TRUE, qty |-> new_qty,
                             entry |-> IF new_qty # 0 THEN forward_price ELSE 0],
                       -margin_delta, listing.sym, q * FUTURE_IMPACT_PCT)

\* ------------------------------------------------------------------------
\* MarketSimulator.apply_order_impact

\* Adjustment without the clamp
AdjustmentUnclamped(s, sq) == ADJ_ONE + (Config(s).impactPct * sq) \div Config(s).liquidity

\* adjustment = max(0.5, min(1.5, 1.0 + impact * signed_quantity / liquidity)),
\* sq being signed_quantity in hundredths and impactPct impact in hundredths
Adjustment(s, sq) ==
  Max(ADJ_MIN, Min(ADJ_MAX, ADJ_ONE + (Config(s).impactPct * sq) \div Config(s).liquidity))

\* new_price = max(MIN_PRICE, security.last_price * adjustment)
ImpactPrice(price, adjustment) == Max(MIN_PRICE, (price * adjustment) \div ADJ_ONE)

\* ApplyOrderImpact committing the session where the code flushes it
ApplyOrderImpactCommitting(t) ==
  /\ pc[t] = "impact"
  /\ LET s == req[t].isym
         sq == req[t].sq
         row == SessSec(t, s)
         adjustment == Adjustment(s, sq)
         new_price == ImpactPrice(row.price, adjustment)
         sn == IF sq = 0 \/ s \notin Symbols \/ row.price = NoRow
               THEN sess[t]
               ELSE [sess[t] EXCEPT
                       !.sec = (s :> [price |-> new_price, upd |-> 0]) @@ sess[t].sec,
                       !.dirty = @ \cup {s},
                       !.hist = Append(@, [sym |-> s, price |-> new_price,
                                           src |-> "impact", tick |-> 0]),
                       !.ops = (s :> <<adjustment, ADJ_ONE>>) @@ sess[t].ops]
     IN /\ CommitDB(sn)
        /\ sess' = [sess EXCEPT ![t] = [sn EXCEPT !.dirty = {}, !.hist = <<>>,
                                                  !.eq = EmptyFn, !.opt = EmptyFn,
                                                  !.fut = EmptyFn, !.ops = EmptyFn]]
  /\ pc' = [pc EXCEPT ![t] = "traded"]
  /\ UNCHANGED <<req, schedVars>>

\* The body of apply_order_impact(symbol, signed_quantity) in thread t, which
\* has an application context (a request).  No lock is taken.  The Security
\* object is the one the session holds; the write is flushed, not committed.
ApplyOrderImpact(t) ==
  /\ pc[t] = "impact"
  /\ LET s == req[t].isym
         sq == req[t].sq
         row == SessSec(t, s)
         adjustment == Adjustment(s, sq)
         new_price == ImpactPrice(row.price, adjustment)
     IN IF sq = 0 \/ s \notin Symbols \/ row.price = NoRow
        THEN sess' = sess
        ELSE sess' = [sess EXCEPT
               ![t].sec = (s :> [price |-> new_price, upd |-> 0]) @@ sess[t].sec,
               ![t].dirty = @ \cup {s},
               ![t].hist = Append(@, [sym |-> s, price |-> new_price, src |-> "impact",
                                      tick |-> 0]),
               ![t].ops = (s :> <<adjustment, ADJ_ONE>>) @@ sess[t].ops]
  /\ pc' = [pc EXCEPT ![t] = "traded"]
  /\ UNCHANGED <<dbVars, req, schedVars>>

\* signed_quantity of a direct call, in hundredths of a share: a very large
\* sale and a very large purchase
ImpactQuantities == {-(BigQty * 100), BigQty * 100}

\* direct calls whose write is committed or still pending
ImpactsBegun ==
  Len(SelectSeq(history, LAMBDA r : r.src = "impact"))
    + Cardinality({t \in Callers : pc[t] \in {"impact", "traded"} /\ req[t].kind = "impact"})

\* A caller that has an application context and is not a trade helper calls
\* apply_order_impact(symbol, signed_quantity): CasinoManager._cover_losses
\* loads the Security row and calls it.
ImpactCall(t, s, sq) ==
  /\ t \in Callers
  /\ pc[t] = "idle"
  /\ ImpactsBegun < MaxImpacts
  /\ sess' = [sess EXCEPT ![t].sec = IF sec[s].price # NoRow THEN (s :> sec[s]) @@ @ ELSE @]
  /\ req' = [req EXCEPT ![t] = [NoReq EXCEPT !.kind = "impact", !.isym = s, !.sq = sq]]
  /\ pc' = [pc EXCEPT ![t] = "impact"]
  /\ UNCHANGED <<dbVars, schedVars>>

\* The caller's db.session.commit() (_publish_earnings)
CommitImpact(t) ==
  /\ pc[t] = "traded"
  /\ req[t].kind = "impact"
  /\ CommitDB(sess[t])
  /\ sess' = [sess EXCEPT ![t] = EmptySess]
  /\ req' = [req EXCEPT ![t] = NoReq]
  /\ pc' = [pc EXCEPT ![t] = "idle"]
  /\ UNCHANGED schedVars

\* ------------------------------------------------------------------------
\* apply_order_impact called with and without application context

\* `with app.app_context():' entered by the thread itself
PushContext(c) ==
  /\ c \in Callers
  /\ pc[c] = "idle"
  /\ appCtx[c].depth < MaxDepth
  /\ appCtx' = [appCtx EXCEPT ![c].depth = @ + 1]
  /\ UNCHANGED <<dbVars, sess, pc, req, simVars, gameVars, casinoVars>>

\* the thread leaves its innermost context (the request ends, the with-block
\* is left); the teardown removes the session
PopContext(c) ==
  /\ c \in Callers
  /\ pc[c] = "idle"
  /\ appCtx[c].depth > 0
  /\ appCtx' = [appCtx EXCEPT ![c].depth = @ - 1]
  /\ sess' = [sess EXCEPT ![c] = EmptySess]
  /\ UNCHANGED <<dbVars, pc, req, simVars, gameVars, casinoVars>>

\* apply_order_impact(symbol, signed_quantity) up to `try:': the two early
\* returns, then `if not has_app_context(): ctx = ...; ctx.push()'
ImpactEnter(t, s, sq) ==
  /\ t \in Callers
  /\ pc[t] = "idle"
  /\ ImpactsBegun < MaxImpacts
  /\ LET early == sq = 0 \/ s \notin Symbols
         push == ~early /\ appCtx[t].depth = 0
     IN /\ appCtx' = [appCtx EXCEPT ![t] =
                        [depth |-> IF push THEN @.depth + 1 ELSE @.depth,
                         own |-> push,
                         before |-> @.depth,
                         pushes |-> IF push THEN 1 ELSE 0,
                         pops |-> 0]]
        /\ pc' = [pc EXCEPT ![t] = IF early THEN "impact_done" ELSE "impact"]
  /\ req' = [req EXCEPT ![t] = [NoReq EXCEPT !.kind = "impact", !.isym = s, !.sq = sq]]
  /\ UNCHANGED <<dbVars, sess, simVars, gameVars, casinoVars>>

\* a statement of the try block raises (the query or the flush fails)
ImpactRaise(t) ==
  /\ pc[t] = "impact"
  /\ req[t].kind = "impact"
  /\ req' = [req EXCEPT ![t].err = "raised"]
  /\ pc' = [pc EXCEPT ![t] = "traded"]
  /\ UNCHANGED <<dbVars, sess, schedVars>>

\* ImpactFinally popping the context only when the try block did not raise
ImpactFinallyNoPopOnRaise(t) ==
  /\ pc[t] = "traded"
  /\ req[t].kind = "impact"
  /\ IF appCtx[t].own /\ req[t].err # "raised"
     THEN /\ appCtx' = [appCtx EXCEPT ![t].depth = @ - 1, ![t].pops = @ + 1]
          /\ sess' = [sess EXCEPT ![t] = EmptySess]
     ELSE UNCHANGED <<appCtx, sess>>
  /\ pc' = [pc EXCEPT ![t] = "impact_done"]
  /\ UNCHANGED <<dbVars, req, simVars, gameVars, casinoVars>>

\* `finally: if ctx is not None: ctx.pop()': the teardown of the popped
\* context removes the session and with it the flushed, uncommitted write
ImpactFinally(t) ==
  /\ pc[t] = "traded"
  /\ req[t].kind = "impact"
  /\ IF appCtx[t].own
     THEN /\ appCtx' = [appCtx EXCEPT ![t].depth = @ - 1, ![t].pops = @ + 1]
          /\ sess' = [sess EXCEPT ![t] = EmptySess]
     ELSE UNCHANGED <<appCtx, sess>>
  /\ pc' = [pc EXCEPT ![t] = "impact_done"]
  /\ UNCHANGED <<dbVars, req, simVars, gameVars, casinoVars>>

\* The call has returned or raised: a caller that has a context commits what
\* the call flushed, or rolls back after an exception.
ImpactReturn(t) ==
  /\ pc[t] = "impact_done"
  /\ IF req[t].err = "raised" THEN UNCHANGED dbVars ELSE CommitDB(sess[t])
  /\ sess' = [sess EXCEPT ![t] = EmptySess]
  /\ req' = [req EXCEPT ![t] = NoReq]
  /\ pc' = [pc EXCEPT ![t] = "idle"]
  /\ appCtx' = [appCtx EXCEPT ![t] = [NoCall EXCEPT !.depth = appCtx[t].depth]]
  /\ UNCHANGED <<simVars, gameVars, casinoVars>>

\* ------------------------------------------------------------------------
\* The trading routes

\* signed quantities of a trade request: a very large sale, the sale of three
\* and of one, zero, and the purchase of one and of two
Quantities == {-BigQty, -3, -1, 0, 1, 2}

\* AfterTrade with the holding written before the helper's checks
AfterTradeEager(t, kind, key, out, s) ==
  [sess[t] EXCEPT
     !.bal = balance,
     !.sec = IF s \in AllSymbols /\ sec[s].price # NoRow THEN (s :> sec[s]) @@ @ ELSE @,
     !.eq = IF kind = "equity" THEN (key :> out.hold) @@ @ ELSE @,
     !.opt = IF kind = "option" THEN (key :> out.hold) @@ @ ELSE @,
     !.fut = IF kind = "future" THEN (key :> out.hold) @@ @ ELSE @]

\* The session of thread t once a trade helper has returned `out': the user
\* and the Security row it read are loaded, the holding is pending when the
\* helper succeeded.
AfterTrade(t, kind, key, out, s) ==
  [sess[t] EXCEPT
     !.bal = balance,
     !.sec = IF s \in AllSymbols /\ sec[s].price # NoRow THEN (s :> sec[s]) @@ @ ELSE @,
     !.eq = IF out.err = "" /\ kind = "equity" THEN (key :> out.hold) @@ @ ELSE @,
     !.opt = IF out.err = "" /\ kind = "option" THEN (key :> out.hold) @@ @ ELSE @,
     !.fut = IF out.err = "" /\ kind = "future" THEN (key :> out.hold) @@ @ ELSE @]

\* the price the helper of request r trades at
TradePrice(r) ==
  IF r.kind = "equity" THEN Max(MIN_PRICE, sec[r.key].price)
  ELSE IF r.kind = "option"
  THEN PriceOption(sec[OptionListings[r.key].sym], OptionListings[r.key])
  ELSE PriceFuture(sec[FutureListings[r.key].sym], FutureListings[r.key])

\* whether request r names a security or listing that exists
KnownKey(r) ==
  IF r.kind = "equity" THEN r.key \in Symbols /\ sec[r.key].price # NoRow
  ELSE IF r.kind = "option" THEN r.key \in DOMAIN OptionListings
  ELSE r.key \in DOMAIN FutureListings

\* trades whose helper has succeeded and whose route has not committed yet
InFlight ==
  Cardinality({t \in Callers : pc[t] \in {"impact", "traded"} /\ req[t].kind # "impact"})

\* A trade helper runs in thread t and returns or raises.
Traded(t, kind, key, q, out, s) ==
  /\ t \in Callers
  /\ pc[t] = "idle"
  /\ out.err = "" => Len(ledger) + InFlight < MaxTrades
  /\ sess' = [sess EXCEPT ![t] = AfterTrade(t, kind, key, out, s)]
  /\ req' = [req EXCEPT ![t] = [kind |-> kind, key |-> key, qty |-> q, err |-> out.err,
                                cash |-> out.cash, isym |-> out.isym, sq |-> out.sq,
                                price |-> IF out.err = ""
                                          THEN TradePrice([kind |-> kind, key |-> key])
                                          ELSE 0]]
  /\ pc' = [pc EXCEPT ![t] = IF out.err = "" THEN "impact" ELSE "failed"]
  /\ UNCHANGED <<dbVars, schedVars>>

\* trade_security: execute_equity_trade(current_user, symbol, signed_quantity)
TradeEquity(t, s, q) ==
  Traded(t, "equity", s, q,
         ExecuteEquityTrade(balance, s, sec[s],
                            IF s \in Symbols THEN eqHold[s] ELSE NoHolding, q), s)

\* trade_option: execute_option_trade(current_user, listing_id, signed_quantity)
TradeOption(t, l, q) ==
  LET known == l \in DOMAIN OptionListings
      listing == IF known THEN OptionListings[l] ELSE OptionListings["o1"]
  IN Traded(t, "option", l, q,
            ExecuteOptionTrade(balance, known, listing, sec[listing.sym],
                               IF known THEN optHold[l] ELSE NoHolding, q),
            IF known /\ q # 0 THEN listing.sym ELSE "")

\* trade_future: execute_future_trade(current_user, listing_id, signed_quantity)
TradeFuture(t, l, q) ==
  LET known == l \in DOMAIN FutureListings
      listing == IF known THEN FutureListings[l] ELSE FutureListings["f1"]
  IN Traded(t, "future", l, q,
            ExecuteFutureTrade(balance, known, listing, sec[listing.sym],
                               IF known THEN futHold[l] ELSE NoFuture, q),
            IF known /\ q # 0 THEN listing.sym ELSE "")

\* FinishTrade adding cash_delta to the balance committed at that moment
\* instead of the balance the session loaded before the helper's check
FinishTradeOnCommitted(t) ==
  /\ pc[t] = "traded"
  /\ req[t].kind # "impact"
  /\ LET s1 == [sess[t] EXCEPT !.bal = balance + req[t].cash, !.balDirty = TRUE,
                               !.txns = Append(@, [amount |-> req[t].cash,
                                                   kind |-> req[t].kind,
                                                   key |-> req[t].key,
                                                   qty |-> req[t].qty,
                                                   price |-> req[t].price])]
     IN CommitDB(s1)
  /\ sess' = [sess EXCEPT ![t] = EmptySess]
  /\ req' = [req EXCEPT ![t] = NoReq]
  /\ pc' = [pc EXCEPT ![t] = "idle"]
  /\ UNCHANGED schedVars

\* record_transaction(current_user, result.cash_delta, ..., commit=False) and
\* db.session.commit() of the route
FinishTrade(t) ==
  /\ pc[t] = "traded"
  /\ req[t].kind # "impact"
  /\ LET s1 == [sess[t] EXCEPT !.bal = @ + req[t].cash, !.balDirty = TRUE,
                               !.txns = Append(@, [amount |-> req[t].cash,
                                                   kind |-> req[t].kind,
                                                   key |-> req[t].key,
                                                   qty |-> req[t].qty,
                                                   price |-> req[t].price])]
     IN CommitDB(s1)
  /\ sess' = [sess EXCEPT ![t] = EmptySess]
  /\ req' = [req EXCEPT ![t] = NoReq]
  /\ pc' = [pc EXCEPT ![t] = "idle"]
  /\ UNCHANGED schedVars

\* The helper raised: `except ValueError: db.session.rollback()', or, for any
\* other exception, the request fails and its session is removed.
Rollback(t) ==
  /\ pc[t] = "failed"
  /\ sess' = [sess EXCEPT ![t] = EmptySess]
  /\ req' = [req EXCEPT ![t] = NoReq]
  /\ pc' = [pc EXCEPT ![t] = "idle"]
  /\ UNCHANGED <<dbVars, schedVars>>

\* ------------------------------------------------------------------------
\* GamesManager (app/games.py)

\* None in an mtime field of the manager
NoMtime == -1

\* the content of a file that tomllib cannot parse
BadToml == -1

\* {} in _base_trivia_sets or _submitted_trivia_sets
NoSets == -2

\* The fields of the manager as __init__ sets them before reload(force=True).
\* A games or trivia dictionary is the number of the file content it was
\* parsed from; _trivia_sets is the merge of a base and a submitted
\* dictionary.
NewManager ==
  [games |-> NoSets, games_mtime |-> NoMtime, failed_games_mtime |-> NoMtime,
   base_trivia_sets |-> NoSets, submitted_trivia_sets |-> NoSets,
   trivia_sets |-> <<NoSets, NoSets>>,
   trivia_mtime |-> NoMtime, failed_trivia_mtime |-> NoMtime,
   submitted_trivia_mtime |-> NoMtime, failed_submitted_trivia_mtime |-> NoMtime]

\* the three files when the application starts
InitialFiles == [n \in {"games", "trivia", "submitted"} |-> [content |-> 0, mtime |-> 0]]

\* _maybe_reload_games(force=force) on manager fields g with files f
MaybeReloadGames(g, f, force) ==
  LET current_mtime == f.games.mtime
  IN IF ~force /\ (\/ current_mtime = g.games_mtime
                   \/ current_mtime # NoMtime /\ current_mtime = g.failed_games_mtime)
     THEN g
     ELSE IF f.games.content = BadToml
     THEN [g EXCEPT !.failed_games_mtime = current_mtime]
     ELSE [g EXCEPT !.games = f.games.content,
                    !.games_mtime = current_mtime,
                    !.failed_games_mtime = NoMtime]

\* _maybe_reload_trivia(force=force)
MaybeReloadTrivia(g, f, force) ==
  LET current_mtime == f.trivia.mtime
  IN IF ~force /\ (\/ current_mtime = g.trivia_mtime
                   \/ current_mtime # NoMtime /\ current_mtime = g.failed_trivia_mtime)
     THEN g
     ELSE IF f.trivia.content = BadToml
     THEN [g EXCEPT !.failed_trivia_mtime = current_mtime]
     ELSE [g EXCEPT !.base_trivia_sets = f.trivia.content,
                    !.trivia_sets = <<f.trivia.content, g.submitted_trivia_sets>>,
                    !.trivia_mtime = current_mtime,
                    !.failed_trivia_mtime = NoMtime]

\* _maybe_reload_submitted_trivia(force=force)
MaybeReloadSubmittedTrivia(g, f, force) ==
  LET current_mtime == f.submitted.mtime
  IN IF ~force /\ (\/ current_mtime = g.submitted_trivia_mtime
                   \/ current_mtime # NoMtime
                        /\ current_mtime = g.failed_submitted_trivia_mtime)
     THEN g
     ELSE IF f.submitted.content = BadToml
     THEN [g EXCEPT !.failed_submitted_trivia_mtime = current_mtime]
     ELSE [g EXCEPT !.submitted_trivia_sets = f.submitted.content,
                    !.trivia_sets = <<g.base_trivia_sets, f.submitted.content>>,
                    !.submitted_trivia_mtime = current_mtime,
                    !.failed_submitted_trivia_mtime = NoMtime]

\* _ensure_current(force=force)
EnsureCurrent(g, f, force) ==
  MaybeReloadSubmittedTrivia(MaybeReloadTrivia(MaybeReloadGames(g, f, force), f, force),
                             f, force)

\* reload(force=force)
Reload(g, f, force) ==
  EnsureCurrent(IF force
                THEN [g EXCEPT !.games_mtime = NoMtime, !.trivia_mtime = NoMtime,
                               !.submitted_trivia_mtime = NoMtime,
                               !.failed_games_mtime = NoMtime,
                               !.failed_trivia_mtime = NoMtime,
                               !.failed_submitted_trivia_mtime = NoMtime,
                               !.base_trivia_sets = NoSets,
                               !.submitted_trivia_sets = NoSets]
                ELSE g,
                f, force)

\* Somebody writes one of the files: content that parses (numbered by the
\* write) or content that does not; the mtime is new.
WriteFile(n, bad) ==
  /\ edits < MaxEdits
  /\ edits' = edits + 1
  /\ files' = [files EXCEPT ![n] = [content |-> IF bad THEN BadToml ELSE edits + 1,
                                   mtime |-> edits + 1]]
  /\ UNCHANGED <<dbVars, sess, pc, req, simVars, gm, casinoVars, appCtx>>

\* list_games(), get_game(key) or get_trivia_set(key) in a request:
\* self._ensure_current(), then the read of _games or _trivia_sets
ListGames(c) ==
  /\ c \in Callers
  /\ pc[c] = "idle"
  /\ gm' = EnsureCurrent(gm, files, FALSE)
  /\ UNCHANGED <<dbVars, sess, pc, req, simVars, files, edits, casinoVars, appCtx>>

\* append_submitted_question(set_key, question_data): the submitted file is
\* written anew (a file that does not parse is taken as empty), then
\* reload(force=True) and get_trivia_set(clean_key)
AppendSubmittedQuestion(c) ==
  /\ c \in Callers
  /\ pc[c] = "idle"
  /\ edits < MaxEdits
  /\ edits' = edits + 1
  /\ files' = [files EXCEPT !.submitted = [content |-> edits + 1, mtime |-> edits + 1]]
  /\ gm' = EnsureCurrent(Reload(gm, files', TRUE), files', FALSE)
  /\ UNCHANGED <<dbVars, sess, pc, req, simVars, casinoVars, appCtx>>

\* ------------------------------------------------------------------------
\* CasinoManager: publication of earnings (app/casino.py)

\* publish_interval = timedelta(minutes=20), in units of ten minutes
PUBLISH_INTERVAL == 2

\* None in _last_publish
NoPublish == -1

\* _should_publish(now), `last' being self._last_publish
ShouldPublish(last, now) == last = NoPublish \/ now - last >= PUBLISH_INTERVAL

\* time passes
AdvanceTime ==
  /\ utcnow < MaxTime
  /\ utcnow' = utcnow + 1
  /\ UNCHANGED <<dbVars, sess, pc, req, simVars, gameVars, casinoLock, last_publish,
                 published, appCtx>>

\* publish_earnings_if_due(force=force) is called: now = datetime.utcnow(),
\* before the lock is taken
PublishCall(c, force) ==
  /\ c \in Callers
  /\ pc[c] = "idle"
  /\ force => Cardinality({i \in DOMAIN published : published[i].forced})
                + Cardinality({u \in Callers : req[u].kind = "publish" /\ req[u].sq = 1})
                < MaxForced
  /\ req' = [req EXCEPT ![c] = [NoReq EXCEPT !.kind = "publish", !.qty = utcnow,
                                        !.sq = IF force THEN 1 ELSE 0]]
  /\ pc' = [pc EXCEPT ![c] = "publish"]
  /\ UNCHANGED <<dbVars, sess, simVars, extVars>>

\* `with self._lock:' entered and `if force or self._should_publish(now)'
\* decided; when it is false the block is left and None returned
PublishAcquire(c) ==
  /\ pc[c] = "publish"
  /\ casinoLock = Free
  /\ IF req[c].sq = 1 \/ ShouldPublish(last_publish, req[c].qty)
     THEN /\ casinoLock' = c
          /\ pc' = [pc EXCEPT ![c] = "publishing"]
          /\ req' = req
     ELSE /\ casinoLock' = casinoLock
          /\ pc' = [pc EXCEPT ![c] = "publish_done"]
          /\ req' = [req EXCEPT ![c].err = "None"]
  /\ UNCHANGED <<dbVars, sess, simVars, gameVars, last_publish, published, utcnow, appCtx>>

\* _publish_earnings(now) returns the summary: _set_last_publish(now, ...),
\* db.session.commit(), and the lock is released
PublishCommit(c) ==
  /\ pc[c] = "publishing"
  /\ last_publish' = req[c].qty
  /\ published' = Append(published, [at |-> req[c].qty, forced |-> req[c].sq = 1])
  /\ casinoLock' = Free
  /\ req' = [req EXCEPT ![c].err = "summary"]
  /\ pc' = [pc EXCEPT ![c] = "publish_done"]
  /\ UNCHANGED <<dbVars, sess, simVars, gameVars, utcnow, appCtx>>

\* _publish_earnings(now) raises: before _set_last_publish (the field is as it
\* was) or in the commit after it (the field holds now); the session is rolled
\* back, nothing is published, the lock is released
PublishRaise(c, set) ==
  /\ pc[c] = "publishing"
  /\ last_publish' = IF set THEN req[c].qty ELSE last_publish
  /\ casinoLock' = Free
  /\ req' = [req EXCEPT ![c].err = "raised"]
  /\ pc' = [pc EXCEPT ![c] = "publish_done"]
  /\ UNCHANGED <<dbVars, sess, simVars, gameVars, published, utcnow, appCtx>>

\* the caller goes on with what publish_earnings_if_due returned
PublishReturn(c) ==
  /\ pc[c] = "publish_done"
  /\ req' = [req EXCEPT ![c] = NoReq]
  /\ pc' = [pc EXCEPT ![c] = "idle"]
  /\ UNCHANGED <<dbVars, sess, simVars, extVars>>

\* ------------------------------------------------------------------------
\* Specifications

\* The user and the process when the application has been constructed: the
\* database outlives the process, so the user holds 2 shares of B (bought at
\* 40.00) and one contract each of o1 and o3 from earlier, and has no holding
\* row of A, o2, f1 or f2; the balance is 60.00.  No scheduler thread exists, the
\* configuration is the one read at construction.
InitProcess ==
  /\ balance = 60000
  /\ eqHold = [s \in Symbols |->
                 IF s = "B" THEN [row |-> TRUE, qty |-> 2, avgN |-> 4000, avgD |-> 1]
                 ELSE NoHolding]
  /\ optHold = [l \in DOMAIN OptionListings |->
                  IF l \in {"o1", "o3"} THEN [row |-> TRUE, qty |-> 1, avgN |-> 40, avgD |-> 1]
                  ELSE NoHolding]
  /\ futHold = [l \in DOMAIN FutureListings |-> NoFuture]
  /\ ledger = <<>>
  /\ sess = [t \in Threads |-> EmptySess]
  /\ pc = [t \in Threads |-> IF t \in Callers THEN "idle" ELSE "unborn"]
  /\ req = [t \in Threads |-> NoReq]
  /\ lock = Free
  /\ thread = NoThread
  /\ stopFlag = FALSE
  /\ stepIdx = [t \in Threads |-> 0]
  /\ tickNo = [t \in Threads |-> 0]
  /\ ticksBegun = 0
  /\ tickFailed = [k \in SchedThreads |-> FALSE]
  /\ stopSeen = [k \in SchedThreads |-> -1]
  /\ interval = 0
  /\ risk_free_rate = 0
  /\ configs = 0
  /\ tickConf = [t \in Threads |-> NoConf]
  /\ clock = 0
  /\ files = InitialFiles
  /\ gm = Reload(NewManager, InitialFiles, TRUE)
  /\ edits = 0
  /\ casinoLock = Free
  /\ last_publish = NoPublish
  /\ published = <<>>
  /\ utcnow = 0
  /\ appCtx = [t \in Threads |-> [NoCall EXCEPT !.depth = IF t \in Callers THEN 1 ELSE 0]]

\* the option and the future on A that are left from an earlier day
EarlierListings ==
  <<(<<[sym |-> "A", type |-> "call", strike |-> 150, exp |-> 0]>>),
    (<<[sym |-> "A", delivery |-> 0]>>)>>

\* The process after init_market: ensure_initialized has stored a Security
\* row for every configured symbol (A at 2.00, B at 50.00) and made the
\* listings of the day next to the earlier ones (o1 and f1 of the trading
\* requests are the earlier ones; o2 and f2 are of this day).
Init ==
  /\ sec = [s \in AllSymbols |->
              IF s = "A" THEN [price |-> 200, upd |-> 0]
              ELSE IF s = "B" THEN [price |-> 5000, upd |-> 0]
              ELSE [price |-> NoRow, upd |-> 0]]
  /\ history = <<[sym |-> "A", price |-> 200, src |-> "seed", tick |-> 0],
                 [sym |-> "B", price |-> 5000, src |-> "seed", tick |-> 0]>>
  /\ serial = [s \in Symbols |-> sec[s].price]
  /\ optionListing = EnsureListings(1, sec, 0, EarlierListings)[1]
  /\ futureListing = EnsureListings(1, sec, 0, EarlierListings)[2]
  /\ InitProcess

\* The price process: request threads call step() and apply_order_impact.
Next ==
  \/ \E t \in Callers :
       /\ ticksBegun + Cardinality({u \in Callers : pc[u] = "tick"}) < PriceTicks
       /\ CallStep(t)
  \/ \E t \in Callers : StepAcquire(t)
  \/ \E t \in Callers, f \in ShockFactors : StepSecurity(t, f)
  \/ \E t \in Callers : StepCommit(t)
  \/ \E t \in Callers : StepRaise(t)
  \/ \E t \in Callers, s \in Symbols, sq \in ImpactQuantities : ImpactCall(t, s, sq)
  \/ \E t \in Callers : ApplyOrderImpact(t)
  \/ \E t \in Callers : CommitImpact(t)

Spec == Init /\ [][Next]_vars

\* The shock of the ticks of SchedSpec, which leaves prices aside
SchedShock == <<2, 1>>

\* The scheduler: start(), stop(), the _run loop and ticks, with callers that
\* also call step() themselves.
SchedNext ==
  \/ \E c \in Callers : StartCheck(c)
  \/ \E c \in Callers : StartClear(c)
  \/ \E c \in Callers : StartNew(c)
  \/ \E c \in Callers : StartRun(c)
  \/ \E c \in Callers : StartReturn(c)
  \/ \E c \in Callers : StopSet(c)
  \/ \E c \in Callers : StopJoin(c)
  \/ \E k \in SchedThreads : RunCheck(k)
  \/ \E k \in SchedThreads : RunSleep(k)
  \/ \E t \in Callers : CallStep(t)
  \/ \E t \in Threads : StepAcquire(t)
  \/ \E t \in Threads : StepSecurity(t, SchedShock)
  \/ \E t \in Threads : StepCommit(t)
  \/ \E t \in Threads : StepRaise(t)

SchedSpec == Init /\ [][SchedNext]_vars

\* the request thread of TradeSpec
Trader == "c1"

\* the option listings the requests of TradeSpec name
TradedOptions == {"o1", "o2"}

\* The three trading routes, one request after the other, without ticks.
TradeNext ==
  \/ \E s \in AllSymbols, q \in Quantities : TradeEquity(Trader, s, q)
  \/ \E l \in TradedOptions \cup {UnknownOption}, q \in Quantities :
       TradeOption(Trader, l, q)
  \/ \E l \in DOMAIN FutureListings \cup {UnknownFuture}, q \in Quantities :
       TradeFuture(Trader, l, q)
  \/ ApplyOrderImpact(Trader)
  \/ FinishTrade(Trader)
  \/ Rollback(Trader)

TradeSpec == Init /\ [][TradeNext]_vars

\* Ticks run while the configuration is re-read.
ReloadNext ==
  \/ \E c \in Callers : ReloadInterval(c)
  \/ \E c \in Callers : ReloadRate(c)
  \/ \E c \in Callers : ReloadConfigs(c)
  \/ \E t \in Callers : CallStep(t)
  \/ \E t \in Callers : StepAcquire(t)
  \/ \E t \in Callers : StepSecurity(t, SchedShock)
  \/ \E t \in Callers : StepCommit(t)
  \/ \E t \in Callers : StepRaise(t)

ReloadSpec == Init /\ [][ReloadNext]_vars

\* The database before ensure_initialized runs: of the configured securities
\* any may have a row already (at its initial price), and no listing exists.
InitFresh ==
  /\ \E present \in SUBSET Symbols :
       /\ sec = [s \in AllSymbols |->
                   IF s \in present THEN [price |-> InitialPrice(s), upd |-> 0]
                   ELSE [price |-> NoRow, upd |-> 0]]
       /\ LET had == SelectSeq(SymOrder, LAMBDA s : s \in present)
          IN history = [i \in 1..Len(had) |->
                          [sym |-> had[i], price |-> InitialPrice(had[i]), src |-> "seed",
                           tick |-> 0]]
  /\ serial = [s \in Symbols |-> sec[s].price]
  /\ optionListing = <<>>
  /\ futureListing = <<>>
  /\ InitProcess

\* ensure_initialized called again and again while time passes and ticks
\* move the prices.
InitNext ==
  \/ EnsureInitialized(Trader)
  \/ AdvanceClock
  \/ CallStep(Trader)
  \/ StepAcquire(Trader)
  \/ \E f \in ShockFactors : StepSecurity(Trader, f)
  \/ StepCommit(Trader)
  \/ StepRaise(Trader)

InitSpec == InitFresh /\ [][InitNext]_vars

\* ------------------------------------------------------------------------
\* Properties

\* the session of thread t holds no pending write
NoPending(t) ==
  /\ sess[t].dirty = {}
  /\ sess[t].hist = <<>>
  /\ ~sess[t].balDirty
  /\ DOMAIN sess[t].eq = {}
  /\ DOMAIN sess[t].opt = {}
  /\ DOMAIN sess[t].fut = {}
  /\ sess[t].txns = <<>>

\* the committed history rows of tick n
TickRows(n) ==
  {history[i] : i \in {j \in DOMAIN history : history[j].src = "tick" /\ history[j].tick = n}}

\* C1: every stored last_price, committed or pending in a session, and every
\* history price is at least MIN_PRICE, whatever ticks and impacts ran before.
C1_PriceFloor ==
  /\ \A s \in Symbols : sec[s].price >= MIN_PRICE
  /\ \A t \in Threads : \A s \in sess[t].dirty : sess[t].sec[s].price >= MIN_PRICE
  /\ \A i \in DOMAIN history : history[i].price >= MIN_PRICE

\* C1 witness: a tick has driven a security to the floor and a very large
\* sale was then applied to it and committed at the floor.
C1_Witness ==
  \E i, j \in DOMAIN history :
    /\ i < j
    /\ history[i].sym = history[j].sym
    /\ history[i].src = "tick" /\ history[i].price = MIN_PRICE
    /\ history[j].src = "impact" /\ history[j].price = MIN_PRICE

\* C2 as claimed: no apply_order_impact body runs while a step() is inside
\* its locked section.
C2_ImpactOutsideTick ==
  [][\A t \in Threads :
       (pc[t] = "impact" /\ pc'[t] = "traded") => \A u \in Threads : pc[u] # "step"]_vars

\* C3 as claimed: no price update is lost; the committed price of a security
\* is the one its committed updates give when applied one after the other.
C3_NoLostUpdate == \A s \in Symbols : sec[s].price = serial[s]

\* C4: the committed rows never hold a tick in part: when the history has a
\* row of tick n it has one for every security, and a security whose
\* committed updated_at is tick n has its committed price in a row of tick n.
C4_TickAtomic ==
  /\ \A n \in 1..ticksBegun :
       TickRows(n) # {} => {r.sym : r \in TickRows(n)} = Symbols
  /\ \A s \in Symbols :
       sec[s].upd > 0 =>
         [sym |-> s, price |-> sec[s].price, src |-> "tick", tick |-> sec[s].upd]
           \in TickRows(sec[s].upd)

\* C4 witness: a tick has updated A and not yet B, nothing of it is committed.
C4_Witness ==
  \E t \in Threads :
    /\ pc[t] = "step"
    /\ "A" \in sess[t].dirty /\ "B" \notin sess[t].dirty
    /\ sess[t].sec["A"].price # sec["A"].price
    /\ TickRows(tickNo[t]) = {}

\* C5: ticks are strictly sequential: at most one thread is inside the locked
\* section, it holds the lock, only it has uncommitted tick rows, and the
\* ticks reach the history in the order they began.
C5_TicksSequential ==
  /\ Cardinality({t \in Threads : pc[t] = "step"}) <= 1
  /\ \A t \in Threads : pc[t] = "step" => lock = t
  /\ \A t \in Threads : pc[t] # "step" => sess[t].hist = <<>>
  /\ \A i, j \in DOMAIN history :
       (i < j /\ history[i].src = "tick" /\ history[j].src = "tick")
         => history[i].tick <= history[j].tick

\* C5 witness: the scheduler thread is inside the second tick while a caller
\* of step() waits for the lock.
C5_Witness ==
  \E k \in SchedThreads, c \in Callers :
    pc[k] = "step" /\ tickNo[k] = 2 /\ pc[c] = "tick"

\* C6 as claimed: at most one scheduler thread is alive at any time.
C6_OneScheduler == Cardinality({k \in SchedThreads : IsAlive(k)}) <= 1

\* C7 as claimed: a scheduled tick that raises leaves the scheduler thread
\* alive, at the sleep that precedes the next tick.
C7_TickErrorSwallowed ==
  [][\A k \in SchedThreads :
       (pc[k] = "step" /\ ~tickFailed[k] /\ tickFailed'[k]) => pc'[k] = "sleep"]_vars

\* C8 as claimed: a scheduler thread that is running when stop() sets the
\* flag begins at most one further tick.
C8_AtMostOneTickAfterStop == \A k \in SchedThreads : stopSeen[k] <= 1

\* the user's committed position in what request r names
Held(r) ==
  IF r.kind = "equity" THEN eqHold[r.key]
  ELSE IF r.kind = "option" THEN optHold[r.key]
  ELSE [row |-> futHold[r.key].row, qty |-> futHold[r.key].qty, avgN |-> 0, avgD |-> 1]

\* The reason section 4.7 gives for rejecting request r, "" when it gives none.
RejectReason(r) ==
  IF r.qty = 0 THEN "zero"
  ELSE IF ~KnownKey(r) THEN "unknown"
  ELSE IF r.kind = "future"
  THEN IF /\ TradePrice(r) * (Abs(Held(r).qty + r.qty) - Abs(Held(r).qty)) > 0
          /\ balance < TradePrice(r) * (Abs(Held(r).qty + r.qty) - Abs(Held(r).qty))
       THEN "margin" ELSE ""
  ELSE IF r.qty > 0
  THEN IF balance < TradePrice(r) * r.qty * MARGIN_DEN THEN "balance" ELSE ""
  ELSE IF ~Held(r).row \/ Held(r).qty < Abs(r.qty) THEN "position" ELSE ""

\* the messages of the helpers, by reason
Messages(reason) ==
  IF reason = "zero" THEN {"Quantity must be non-zero."}
  ELSE IF reason = "unknown"
  THEN {"Security not found.", "Option listing not found.", "Future listing not found."}
  ELSE IF reason = "balance"
  THEN {"Insufficient balance to buy.", "Insufficient balance to buy option."}
  ELSE IF reason = "margin" THEN {"Insufficient balance for margin."}
  ELSE IF reason = "position"
  THEN {"Not enough shares to sell.", "Not enough contracts to sell."}
  ELSE {}

\* C9: a trade helper that fails leaves the session without any pending write
\* (balance, holdings, last_price, history as they were), and when it fails
\* for a reason of section 4.7 it fails with that reason's message; a helper
\* that has succeeded had no such reason.
C9_RejectedTradeChangesNothing ==
  /\ pc[Trader] = "failed" =>
       /\ NoPending(Trader)
       /\ RejectReason(req[Trader]) # "" =>
            req[Trader].err \in Messages(RejectReason(req[Trader]))
       /\ RejectReason(req[Trader]) = "" => req[Trader].err = "TypeError"
  /\ pc[Trader] = "impact" => RejectReason(req[Trader]) = ""

\* C9 witness: with balance 10.00 a buy of one share of B, priced above
\* 50.00, has been rejected for insufficient balance.
C9_Witness ==
  /\ pc[Trader] = "failed"
  /\ req[Trader].kind = "equity" /\ req[Trader].key = "B" /\ req[Trader].qty = 1
  /\ req[Trader].err = "Insufficient balance to buy."
  /\ balance = 10000
  /\ sec["B"].price >= 5000

\* C10 as claimed: an equity buy the balance covers succeeds, also when the
\* user has no holding of the symbol yet.
C10_CoveredBuySucceeds ==
  \A t \in Callers :
    (/\ pc[t] = "failed"
     /\ req[t].kind = "equity" /\ req[t].qty > 0 /\ KnownKey(req[t]))
      => balance < TradePrice(req[t]) * req[t].qty * MARGIN_DEN

\* the pending row of what request r names in the session of thread t
Pending(t, r) ==
  IF r.kind = "equity" THEN sess[t].eq[r.key]
  ELSE IF r.kind = "option" THEN sess[t].opt[r.key]
  ELSE [row |-> sess[t].fut[r.key].row, qty |-> sess[t].fut[r.key].qty,
        avgN |-> 0, avgD |-> 1]

\* C11: a sale of shares or option contracts that the helper accepts had a
\* holding of at least the quantity sold and leaves what remains of it, and
\* no equity or option holding, committed or pending, is ever negative.
C11_SellsNeedHolding ==
  /\ \A s \in Symbols : eqHold[s].qty >= 0
  /\ \A l \in DOMAIN OptionListings : optHold[l].qty >= 0
  /\ \A t \in Callers :
       /\ \A s \in DOMAIN sess[t].eq : sess[t].eq[s].qty >= 0
       /\ \A l \in DOMAIN sess[t].opt : sess[t].opt[l].qty >= 0
  /\ \A t \in Callers :
       (/\ pc[t] \in {"impact", "traded"}
        /\ req[t].kind \in {"equity", "option"}
        /\ req[t].qty < 0)
         => /\ Held(req[t]).row
            /\ Held(req[t]).qty >= -req[t].qty
            /\ Pending(t, req[t]).qty = Held(req[t]).qty + req[t].qty

\* C11 witness: one of the two shares of B has been sold, and the sale of
\* three more is rejected.
C11_Witness ==
  /\ Len(ledger) = 1 /\ ledger[1].kind = "equity" /\ ledger[1].qty = -1
  /\ eqHold["B"].qty = 1
  /\ pc[Trader] = "failed"
  /\ req[Trader].kind = "equity" /\ req[Trader].key = "B" /\ req[Trader].qty = -3
  /\ req[Trader].err = "Not enough shares to sell."

\* execute_equity_trade(user, s, Q) followed by execute_equity_trade(user, s, -Q)
\* when the price has moved to p2 in between: the two results
RoundTrip(s, Q, p2) ==
  LET buy == ExecuteEquityTrade(balance, s, sec[s], eqHold[s], Q)
      held == IF buy.err = "" THEN buy.hold ELSE eqHold[s]
      sell == ExecuteEquityTrade(balance + buy.cash, s, [price |-> p2, upd |-> 0], held, -Q)
  IN <<buy, sell>>

\* C12 as claimed: a user who holds nothing of a security and can pay for Q
\* shares buys Q and sells Q, at whatever price, and is left with a holding
\* row of quantity 0 and average price 0.
C12_RoundTripClosesPosition ==
  \A s \in Symbols, Q \in {1, 2} :
    (/\ sec[s].price # NoRow
     /\ eqHold[s].qty = 0
     /\ balance >= Max(MIN_PRICE, sec[s].price) * Q * MARGIN_DEN)
      => \A p2 \in {MIN_PRICE, sec[s].price, 2 * sec[s].price} :
           /\ RoundTrip(s, Q, p2)[1].err = ""
           /\ RoundTrip(s, Q, p2)[2].err = ""
           /\ RoundTrip(s, Q, p2)[2].hold = [row |-> TRUE, qty |-> 0, avgN |-> 0, avgD |-> 1]

\* the margin change of future request r against the committed position
MarginDelta(r) ==
  TradePrice(r) * Abs(futHold[r.key].qty + r.qty) - TradePrice(r) * Abs(futHold[r.key].qty)

\* C13: a future trade that succeeds has cash_delta equal to minus the change
\* of margin, 0.1 x forward x (|previous + quantity| - |previous|), and moves
\* the position by quantity; one that is rejected for margin had a positive
\* change of margin above the balance.
C13_FutureMarginDelta ==
  \A t \in Callers :
    /\ (pc[t] \in {"impact", "traded"} /\ req[t].kind = "future")
         => /\ req[t].cash = -MarginDelta(req[t])
            /\ sess[t].fut[req[t].key].qty = futHold[req[t].key].qty + req[t].qty
    /\ (pc[t] = "failed" /\ req[t].err = "Insufficient balance for margin.")
         => MarginDelta(req[t]) > 0 /\ balance < MarginDelta(req[t])

\* C13 witness: a long position of two contracts is reversed to short one,
\* which refunds the margin of one contract.
C13_Witness ==
  /\ pc[Trader] = "traded"
  /\ req[Trader].kind = "future" /\ req[Trader].qty = -3
  /\ futHold[req[Trader].key].qty = 2
  /\ sess[Trader].fut[req[Trader].key].qty = -1
  /\ req[Trader].cash = TradePrice(req[Trader])
  /\ req[Trader].cash > 0

\* the committed ledger rows of the trades of future listing l
FutureEntries(l) == SelectSeq(ledger, LAMBDA e : e.kind = "future" /\ e.key = l)

RECURSIVE SumAmounts(_)
\* the sum of the amounts of ledger rows
SumAmounts(es) == IF es = <<>> THEN 0 ELSE es[1].amount + SumAmounts(Tail(es))

\* C14: for a future listing traded from a flat position at one forward price
\* throughout, the cash deltas of the trades add up to minus the margin of the
\* position held, 0.1 x forward x |position|, and to 0 when it is flat again.
C14_NoDoubleCharging ==
  \A l \in DOMAIN FutureListings :
    LET es == FutureEntries(l)
    IN (\A i, j \in DOMAIN es : es[i].price = es[j].price)
         => IF es = <<>> THEN futHold[l].qty = 0
            ELSE SumAmounts(es) = -(es[1].price * Abs(futHold[l].qty))

\* C14 witness: long two, reversed to short one, closed: three trades at one
\* forward price, flat again, net cash 0.
C14_Witness ==
  \E l \in DOMAIN FutureListings :
    LET es == FutureEntries(l)
    IN /\ Len(es) = 3
       /\ es[1].qty = 2 /\ es[2].qty = -3 /\ es[3].qty = 1
       /\ es[1].price = es[2].price /\ es[2].price = es[3].price
       /\ futHold[l].qty = 0
       /\ SumAmounts(es) = 0

\* C15: the helpers commit nothing; the committed balance, holdings and ledger
\* change only in the commit of a route whose helper succeeded, and then all
\* three change together: one ledger row of the trade's cash_delta, the
\* balance moved by it, and the traded holding replaced by the pending one.
C15_TradeAtomic ==
  [][\/ UNCHANGED <<balance, eqHold, optHold, futHold, ledger>>
     \/ \E t \in Callers :
          /\ pc[t] = "traded" /\ pc'[t] = "idle"
          /\ ledger' = Append(ledger, ledger'[Len(ledger')])
          /\ ledger'[Len(ledger')].amount = req[t].cash
          /\ ledger'[Len(ledger')].key = req[t].key
          /\ balance' = balance + req[t].cash
          /\ eqHold' = IF req[t].kind = "equity"
                       THEN [eqHold EXCEPT ![req[t].key] = sess[t].eq[req[t].key]]
                       ELSE eqHold
          /\ optHold' = IF req[t].kind = "option"
                        THEN [optHold EXCEPT ![req[t].key] = sess[t].opt[req[t].key]]
                        ELSE optHold
          /\ futHold' = IF req[t].kind = "future"
                        THEN [futHold EXCEPT ![req[t].key] = sess[t].fut[req[t].key]]
                        ELSE futHold
          /\ <<eqHold', optHold', futHold'>> # <<eqHold, optHold, futHold>>]_vars

\* C15 witness: one share of B bought and committed: ledger row, balance and
\* holding have all changed.
C15_Witness ==
  /\ pc[Trader] = "idle"
  /\ Len(ledger) = 1 /\ ledger[1].kind = "equity" /\ ledger[1].key = "B"
  /\ ledger[1].amount < 0
  /\ balance = 60000 + ledger[1].amount
  /\ eqHold["B"].qty = 3

\* C16: an effective apply_order_impact uses an adjustment within [0.5, 1.5]
\* and leaves the price between half and one and a half times the old price,
\* raised to the floor when below it.
C16_ImpactBounded ==
  [][\A t \in Callers :
       (pc[t] = "impact" /\ pc'[t] = "traded" /\ sess'[t].hist # sess[t].hist)
         => LET s == req[t].isym
                old == SessSec(t, s).price
                new == sess'[t].sec[s].price
            IN /\ Adjustment(s, req[t].sq) >= ADJ_MIN
               /\ Adjustment(s, req[t].sq) <= ADJ_MAX
               /\ new >= Max(MIN_PRICE, (old * ADJ_MIN) \div ADJ_ONE)
               /\ new <= Max(MIN_PRICE, (old * ADJ_MAX) \div ADJ_ONE)]_vars

\* C16 witness: a very large purchase (raw factor 11) has moved A to one and
\* a half times its price.
C16_Witness ==
  \E t \in Callers :
    /\ pc[t] = "traded" /\ req[t].kind = "impact"
    /\ req[t].isym = "A" /\ req[t].sq = BigQty * 100
    /\ sess[t].sec["A"].price * 2 = sec["A"].price * 3

\* C17 as claimed: a tick never uses a mixture of old and new configuration:
\* every self.interval it reads belongs to the configuration whose map its
\* loop iterates.
C17_TickSeesOneConfig ==
  \A t \in Threads : \A iv \in tickConf[t].ivs : iv = tickConf[t].cfg

\* the rows of sequence new that follow the rows of sequence old
Appended(old, new) == SubSeq(new, Len(old) + 1, Len(new))

\* C18: the price history only grows by appending: the rows it has stay as
\* they are; a commit appends one row per security whose last_price it
\* writes, with that price; and a tick or an impact that writes a security's
\* price in its session adds exactly one pending row with that price.
C18_HistoryAppendOnly ==
  [][/\ Len(history') >= Len(history)
     /\ SubSeq(history', 1, Len(history)) = history
     /\ LET rows == Appended(history, history')
        IN /\ \A i \in DOMAIN rows : sec'[rows[i].sym].price = rows[i].price
           /\ \A i, j \in DOMAIN rows : rows[i].sym = rows[j].sym => i = j
           /\ \A s \in Symbols : sec'[s] # sec[s] => \E i \in DOMAIN rows : rows[i].sym = s
     /\ \A t \in Threads :
          sess'[t].dirty # {} =>
            /\ SubSeq(sess'[t].hist, 1, Len(sess[t].hist)) = sess[t].hist
            /\ Len(sess'[t].hist) = Cardinality(sess'[t].dirty)
            /\ \A i \in DOMAIN sess'[t].hist :
                 LET r == sess'[t].hist[i]
                 IN r.sym \in sess'[t].dirty /\ sess'[t].sec[r.sym].price = r.price]_vars

\* C18 witness: after the two seed rows, a tick has appended its two rows and
\* an impact its one.
C18_Witness ==
  /\ Len(history) = 5
  /\ history[1].src = "seed" /\ history[2].src = "seed"
  /\ Cardinality({i \in DOMAIN history : history[i].src = "tick"}) = 2
  /\ Cardinality({i \in DOMAIN history : history[i].src = "impact"}) = 1

\* no two rows of a listing table are the same listing
KeysDistinct(rows) == \A i, j \in DOMAIN rows : rows[i] = rows[j] => i = j

\* every listing the listing manager would look for now, at the present
\* prices and time, exists
AllListed ==
  \A s \in Symbols :
    /\ sec[s].price # NoRow
    /\ \A i \in DOMAIN OptionKeys(s, Max(MIN_PRICE, sec[s].price), clock) :
         \E j \in DOMAIN optionListing :
           optionListing[j] = OptionKeys(s, Max(MIN_PRICE, sec[s].price), clock)[i]
    /\ \A i \in DOMAIN FutureKeys(s, clock) :
         \E j \in DOMAIN futureListing : futureListing[j] = FutureKeys(s, clock)[i]

\* C19: no two option listings share (symbol, kind, strike, expiration) and no
\* two future listings share (symbol, delivery date); the tables only grow by
\* appending; after a call every listing of the present prices and time
\* exists, and a call made when they all exist creates nothing.
C19_ListingsIdempotent ==
  [][/\ KeysDistinct(optionListing') /\ KeysDistinct(futureListing')
     /\ SubSeq(optionListing', 1, Len(optionListing)) = optionListing
     /\ SubSeq(futureListing', 1, Len(futureListing)) = futureListing
     /\ \A c \in Callers :
          EnsureInitialized(c) =>
            /\ AllListed'
            /\ AllListed => UNCHANGED <<optionListing, futureListing>>]_vars

\* C19 witness: the listing manager has run on two days, the second time with
\* A at the floor, where both strike multipliers give the same strike: the
\* options of A expire on three days, and at the floor strike the day both
\* calls share has one call and one put.
C19_Witness ==
  /\ sec["A"].price = MIN_PRICE
  /\ AllListed
  /\ {optionListing[i].exp : i \in {j \in DOMAIN optionListing :
                                      optionListing[j].sym = "A"}} = {1, 2, 3}
  /\ Cardinality({i \in DOMAIN optionListing :
                    /\ optionListing[i].sym = "A"
                    /\ optionListing[i].strike = MIN_PRICE
                    /\ optionListing[i].exp = 2}) = 2
  /\ Len(futureListing) = 5

\* C20: a call of ensure_initialized leaves every existing security row as it
\* is and appends no history row for it; a missing security is created at its
\* initial price with one seed row; the history it found is kept; and a call
\* that finds every configured security changes neither rows nor history.
C20_EnsureInitializedIdempotent ==
  [][\A c \in Callers :
       EnsureInitialized(c) =>
         /\ SubSeq(history', 1, Len(history)) = history
         /\ \A s \in Symbols :
              LET added == SelectSeq(Appended(history, history'), LAMBDA r : r.sym = s)
              IN IF sec[s].price = NoRow
                 THEN /\ sec'[s].price = InitialPrice(s)
                      /\ added = <<[sym |-> s, price |-> InitialPrice(s), src |-> "seed",
                                    tick |-> 0]>>
                 ELSE sec'[s] = sec[s] /\ added = <<>>
         /\ (\A s \in Symbols : sec[s].price # NoRow)
              => sec' = sec /\ history' = history]_vars

\* C20 witness: B was missing and has been created, a tick has then moved both
\* prices, and a later call has made the listings of the new price of A
\* without touching prices or history.
C20_Witness ==
  /\ Len(history) = 4
  /\ history[1] = [sym |-> "A", price |-> 200, src |-> "seed", tick |-> 0]
  /\ history[2] = [sym |-> "B", price |-> 5000, src |-> "seed", tick |-> 0]
  /\ history[3].src = "tick" /\ history[4].src = "tick"
  /\ sec["A"].price = 400 /\ sec["B"].price = 10000
  /\ \E i, j \in DOMAIN optionListing :
       /\ optionListing[i].sym = "A" /\ optionListing[i].strike = 180
       /\ optionListing[j].sym = "A" /\ optionListing[j].strike = 360
  /\ pc[Trader] = "idle"

\* ------------------------------------------------------------------------
\* price_option and price_future for stored listings

\* max(0.0, (listing.expiration - datetime.utcnow()).total_seconds()) / SECONDS_IN_YEAR
\* and the same for delivery_date: positive exactly when the date is ahead
TimeToExpiry(date, now) == Max(0, date - now)

\* simulator.price_option(listing) for the i-th OptionListing row, in thread t
\* (execute_option_trade and the security page call it)
QuoteOption(t, i) ==
  /\ t \in Callers
  /\ pc[t] = "idle"
  /\ i \in DOMAIN optionListing
  /\ LET l == optionListing[i]
         listing == [sym |-> l.sym, type |-> l.type, strike |-> l.strike,
                     live |-> TimeToExpiry(l.exp, clock) > 0]
     IN req' = [req EXCEPT ![t] = [NoReq EXCEPT !.kind = "price_option", !.qty = i,
                                          !.price = PriceOption(SessSec(t, l.sym), listing)]]
  /\ pc' = [pc EXCEPT ![t] = "quoted"]
  /\ UNCHANGED <<dbVars, sess, schedVars>>

\* simulator.price_future(listing) for the i-th FutureListing row, in thread t
QuoteFuture(t, i) ==
  /\ t \in Callers
  /\ pc[t] = "idle"
  /\ i \in DOMAIN futureListing
  /\ LET l == futureListing[i]
         listing == [sym |-> l.sym, live |-> TimeToExpiry(l.delivery, clock) > 0]
     IN req' = [req EXCEPT ![t] = [NoReq EXCEPT !.kind = "price_future", !.qty = i,
                                          !.price = PriceFuture(SessSec(t, l.sym), listing)]]
  /\ pc' = [pc EXCEPT ![t] = "quoted"]
  /\ UNCHANGED <<dbVars, sess, schedVars>>

\* the caller has used the price
QuoteReturn(t) ==
  /\ pc[t] = "quoted"
  /\ req' = [req EXCEPT ![t] = NoReq]
  /\ pc' = [pc EXCEPT ![t] = "idle"]
  /\ UNCHANGED <<dbVars, sess, schedVars>>

\* Listings are priced while time passes and ticks move the prices.
QuoteNext ==
  \/ \E i \in DOMAIN optionListing : QuoteOption(Trader, i)
  \/ \E i \in DOMAIN futureListing : QuoteFuture(Trader, i)
  \/ QuoteReturn(Trader)
  \/ AdvanceClock
  \/ CallStep(Trader)
  \/ StepAcquire(Trader)
  \/ \E f \in ShockFactors : StepSecurity(Trader, f)
  \/ StepCommit(Trader)
  \/ StepRaise(Trader)

QuoteSpec == Init /\ [][QuoteNext]_vars

\* C21: price_option of a listing at or past its expiration returns exactly
\* max(0, S - K) for a call and max(0, K - S) for a put, S being the
\* security's price and K the strike.
C21_OptionIntrinsicAtExpiry ==
  [][\A t \in Callers : \A i \in DOMAIN optionListing :
       (QuoteOption(t, i) /\ optionListing[i].exp <= clock)
         => LET S == sec[optionListing[i].sym].price
                K == optionListing[i].strike
            IN req'[t].price = IF optionListing[i].type = "call"
                               THEN (IF S > K THEN S - K ELSE 0)
                               ELSE (IF K > S THEN K - S ELSE 0)]_vars

\* C21 witness: with A at 4.00 the call of strike 1.80 that expires today has
\* been priced at exactly 2.20.
C21_Witness ==
  /\ pc[Trader] = "quoted" /\ req[Trader].kind = "price_option"
  /\ optionListing[req[Trader].qty] =
       [sym |-> "A", type |-> "call", strike |-> 180, exp |-> clock]
  /\ sec["A"].price = 400
  /\ req[Trader].price = 220

\* C22: price_future of a listing whose delivery date is now or past returns
\* exactly the security's price.
C22_FutureAtDeliveryIsSpot ==
  [][\A t \in Callers : \A i \in DOMAIN futureListing :
       (QuoteFuture(t, i) /\ futureListing[i].delivery <= clock)
         => req'[t].price = sec[futureListing[i].sym].price]_vars

\* C22 witness: the future of B delivered today has been priced at the 100.00 B
\* trades at, and not at its carried price.
C22_Witness ==
  /\ pc[Trader] = "quoted" /\ req[Trader].kind = "price_future"
  /\ futureListing[req[Trader].qty] = [sym |-> "B", delivery |-> clock]
  /\ sec["B"].price = 10000
  /\ req[Trader].price = 10000

\* ------------------------------------------------------------------------
\* The games and trivia files are edited while requests read the games

GamesNext ==
  \/ \E n \in DOMAIN InitialFiles, bad \in BOOLEAN : WriteFile(n, bad)
  \/ \E c \in Callers : ListGames(c)
  \/ \E c \in Callers : AppendSubmittedQuestion(c)

GamesSpec == Init /\ [][GamesNext]_vars

\* C23 as claimed: while the games (trivia) file holds content that does not
\* parse, list_games (get_trivia_set) keeps returning the definitions loaded
\* before; and a call made when the file parses leaves the manager with the
\* file's definitions and the file's mtime.
C23_KeepsLastGood ==
  [][/\ (files.games.content = BadToml /\ files'.games = files.games)
          => gm'.games = gm.games
     /\ (files.trivia.content = BadToml /\ files'.trivia = files.trivia)
          => gm'.trivia_sets[1] = gm.trivia_sets[1]
     /\ \A c \in Callers :
          ListGames(c) =>
            /\ files.games.content # BadToml
                 => gm'.games = files.games.content /\ gm'.games_mtime = files.games.mtime
            /\ files.trivia.content # BadToml
                 => /\ gm'.trivia_sets[1] = files.trivia.content
                    /\ gm'.trivia_mtime = files.trivia.mtime]_vars

\* ------------------------------------------------------------------------
\* Request threads and the casino thread publish earnings while time passes

CasinoNext ==
  \/ AdvanceTime
  \/ \E c \in Callers, force \in BOOLEAN : PublishCall(c, force)
  \/ \E c \in Callers : PublishAcquire(c)
  \/ \E c \in Callers : PublishCommit(c)
  \/ \E c \in Callers, set \in BOOLEAN : PublishRaise(c, set)
  \/ \E c \in Callers : PublishReturn(c)

CasinoSpec == Init /\ [][CasinoNext]_vars

\* C24 as claimed: a call without force goes on to publish exactly when
\* _last_publish is None or at least publish_interval lies between it and the
\* call's `now', the boundary included; and two publications without force
\* that follow each other are at least publish_interval apart.
C24_PublishAtMostOncePerInterval ==
  [][/\ \A c \in Callers :
          (PublishAcquire(c) /\ req[c].sq = 0)
            => (pc'[c] = "publishing"
                  <=> (last_publish = NoPublish
                         \/ req[c].qty - last_publish >= PUBLISH_INTERVAL))
     /\ \A i \in DOMAIN published' :
          (i > 1 /\ ~published'[i - 1].forced /\ ~published'[i].forced)
            => published'[i].at - published'[i - 1].at >= PUBLISH_INTERVAL]_vars

\* C25: a tick that finds a configured symbol without Security row commits
\* all the same: every configured security that has a row gets exactly one
\* history row of the tick, with its new committed price, and is stamped with
\* the tick; the symbol without row gets no row of either kind.
C25_MissingSymbolSkipped ==
  [][\A t \in Callers :
       StepCommit(t) =>
         LET rows == Appended(history, history')
         IN \A s \in Symbols :
              LET mine == SelectSeq(rows, LAMBDA r : r.sym = s)
              IN IF sec[s].price = NoRow
                 THEN sec'[s] = sec[s] /\ mine = <<>>
                 ELSE /\ mine = <<[sym |-> s, price |-> sec'[s].price, src |-> "tick",
                                   tick |-> tickNo[t]]>>
                      /\ sec'[s].upd = tickNo[t]]_vars

\* C25 witness: A, the first configured symbol, has no Security row; a tick
\* has been committed with a history row for B and none for A.
C25_Witness ==
  /\ sec["A"].price = NoRow
  /\ pc[Trader] = "idle"
  /\ \E i \in DOMAIN history : history[i].sym = "B" /\ history[i].src = "tick"
  /\ \A i \in DOMAIN history : history[i].sym # "A"
  /\ sec["B"].upd = 1

\* Option trades alone, of every listing the user holds or can buy.
OptionNext ==
  \/ \E l \in DOMAIN OptionListings \cup {UnknownOption}, q \in Quantities :
       TradeOption(Trader, l, q)
  \/ ApplyOrderImpact(Trader)
  \/ FinishTrade(Trader)
  \/ Rollback(Trader)

OptionSpec == Init /\ [][OptionNext]_vars

\* C26: an option trade calls apply_order_impact with 0.05 x quantity for a
\* call and -0.05 x quantity for a put; the underlying's price is then not
\* below the stored one after calls were bought or puts sold, and not above
\* it after puts were bought or calls sold.
C26_OptionImpactSigned ==
  \A t \in Callers :
    (pc[t] \in {"impact", "traded"} /\ req[t].kind = "option")
      => LET listing == OptionListings[req[t].key]
             call == listing.type = "call"
         IN /\ req[t].isym = listing.sym
            /\ req[t].sq = IF call THEN 5 * req[t].qty ELSE -(5 * req[t].qty)
            /\ pc[t] = "traded" =>
                 IF call = (req[t].qty > 0)
                 THEN SessSec(t, listing.sym).price >= sec[listing.sym].price
                 ELSE SessSec(t, listing.sym).price <= sec[listing.sym].price

\* C26 witness: two puts on A were bought and A's price is pending one percent
\* below the stored price.
C26_Witness ==
  /\ pc[Trader] = "traded"
  /\ req[Trader].kind = "option" /\ req[Trader].key = "o3" /\ req[Trader].qty = 2
  /\ req[Trader].sq = -10
  /\ sess[Trader].sec["A"].price * 100 = sec["A"].price * 99

\* signed_quantity of the calls of ContextSpec: none, a sale, a purchase
ContextQuantities == {0, -(BigQty * 100), BigQty * 100}

\* Threads with and without application context call apply_order_impact, for
\* configured symbols with and without Security row and for unknown symbols.
ContextNext ==
  \/ \E c \in Callers : PushContext(c)
  \/ \E c \in Callers : PopContext(c)
  \/ \E c \in Callers, s \in AllSymbols, sq \in ContextQuantities : ImpactEnter(c, s, sq)
  \/ \E c \in Callers : ApplyOrderImpact(c)
  \/ \E c \in Callers : ImpactRaise(c)
  \/ \E c \in Callers : ImpactFinally(c)
  \/ \E c \in Callers : ImpactReturn(c)

ContextSpec == InitFresh /\ [][ContextNext]_vars

\* C27: when apply_order_impact has run to its end, on whichever path, the
\* thread's context depth is the depth at the call and the call has popped
\* what it pushed; a call made without context that reached the try block
\* pushed exactly one context, a call made with a context pushed none; and
\* during a call the depth is the depth at the call, plus one while the
\* call's own context is pushed.
C27_NoResidualContext ==
  \A t \in Callers :
    /\ pc[t] = "impact_done"
         => /\ appCtx[t].depth = appCtx[t].before
            /\ appCtx[t].pushes = appCtx[t].pops
            /\ appCtx[t].pushes = IF /\ appCtx[t].before = 0
                                     /\ req[t].sq # 0 /\ req[t].isym \in Symbols
                                  THEN 1 ELSE 0
    /\ (pc[t] \in {"impact", "traded"} /\ req[t].kind = "impact")
         => /\ appCtx[t].depth = appCtx[t].before + appCtx[t].pushes
            /\ appCtx[t].pushes = IF appCtx[t].before = 0 THEN 1 ELSE 0
            /\ appCtx[t].pops = 0

\* C27 witness: a call made without context has pushed one, raised inside the
\* try block, popped it and is back at depth 0.
C27_Witness ==
  \E t \in Callers :
    /\ pc[t] = "impact_done" /\ req[t].err = "raised"
    /\ appCtx[t].before = 0 /\ appCtx[t].pushes = 1 /\ appCtx[t].pops = 1
    /\ appCtx[t].depth = 0

\* One caller starts and stops the scheduler, one call after the other.
RestartNext ==
  \/ StartCheck(Trader)
  \/ StartClear(Trader)
  \/ StartNew(Trader)
  \/ StartRun(Trader)
  \/ StartReturn(Trader)
  \/ StopSet(Trader)
  \/ StopJoin(Trader)
  \/ \E k \in SchedThreads : RunCheck(k)
  \/ \E k \in SchedThreads : RunSleep(k)
  \/ \E k \in SchedThreads : StepAcquire(k)
  \/ \E k \in SchedThreads : StepSecurity(k, SchedShock)
  \/ \E k \in SchedThreads : StepCommit(k)
  \/ \E k \in SchedThreads : StepRaise(k)

RestartSpec == Init /\ [][RestartNext]_vars

\* C28 as claimed: when start() returns, a scheduler thread is alive and the
\* stop flag is clear, so the thread goes on with its ticks; also when the
\* call follows a stop() whose join timed out.
C28_RestartWorks ==
  [][(pc[Trader] # "start_done" /\ pc'[Trader] = "start_done")
       => (IsAlive(thread) /\ ~stopFlag)']_vars

\* The scheduler, started by one caller, and a caller of step(), with the
\* progress the threads make: a thread
\* inside the locked section of step() goes on to its next statement (the loop
\* over the configured symbols is finite; the section ends with the commit or
\* with an exception), and a thread waiting in `with self._lock' enters when
\* the lock stays free.
LockNext ==
  \/ StartCheck(Trader)
  \/ StartClear(Trader)
  \/ StartNew(Trader)
  \/ StartRun(Trader)
  \/ StartReturn(Trader)
  \/ \E k \in SchedThreads : RunCheck(k)
  \/ \E k \in SchedThreads : RunSleep(k)
  \/ \E t \in Callers \ {Trader} : CallStep(t)
  \/ \E t \in Threads : StepAcquire(t)
  \/ \E t \in Threads : StepSecurity(t, SchedShock)
  \/ \E t \in Threads : StepCommit(t)
  \/ \E t \in Threads : StepRaise(t)

LockSpec ==
  /\ Init
  /\ [][LockNext]_vars
  /\ \A t \in Threads :
       /\ WF_vars(StepSecurity(t, SchedShock) \/ StepCommit(t) \/ StepRaise(t))
       /\ WF_vars(StepAcquire(t))

\* C29: the simulator lock is held only by a thread inside the locked section
\* of step(); a held lock is eventually released, whether the section ends with
\* the commit or with an exception; and a thread that has called step() gets
\* the lock (as long as the ticks of the model are not used up).
C29_LockNeverLeftHeld ==
  /\ [](\A t \in Threads : lock = t => pc[t] = "step")
  /\ \A t \in Threads : (lock = t) ~> (lock = Free)
  /\ \A t \in Threads :
       (pc[t] = "tick") ~> (pc[t] = "step" \/ ticksBegun >= MaxTicks)

\* a tick has ended with an exception in its locked section and another thread
\* is inside the section after it
C29_Witness ==
  \E k \in SchedThreads :
    /\ tickFailed[k]
    /\ pc[k] = "dead"
    /\ \E t \in Threads \ {k} : lock = t /\ pc[t] = "step"

\* signed quantities of the concurrent requests: a sale and a purchase of one,
\* and a purchase of two
RaceQuantities == {-1, 1, 2}

\* Two requests of the same user are handled at the same time, each in its own
\* thread and session: B trades at 50.00 with 60.00 on the account.
RaceNext ==
  \/ \E c \in Callers, q \in RaceQuantities : TradeEquity(c, "B", q)
  \/ \E c \in Callers, q \in {-1, 1} : TradeOption(c, "o1", q)
  \/ \E c \in Callers, q \in {-1, 1} : TradeFuture(c, "f1", q)
  \/ \E c \in Callers : ApplyOrderImpact(c)
  \/ \E c \in Callers : FinishTrade(c)
  \/ \E c \in Callers : Rollback(c)

RaceSpec == Init /\ [][RaceNext]_vars

\* C30: the committed balance of the user is never negative, whatever equity,
\* option and future requests of the user are handled and however two of them
\* interleave.
C30_BalanceNeverNegative == balance >= 0

\* two requests handled at the same time have both committed, and the amounts
\* of the ledger add up to more than the 60.00 the account started with
C30_Witness ==
  /\ \A c \in Callers : pc[c] = "idle"
  /\ Len(ledger) >= 2
  /\ 60000 + SumAmounts(ledger) < 0
  /\ balance >= 0

=============================================================================
